---- MODULE Spec2Model ----
(***************************************************************************)
(* A model of the price-tool repository: the ScraperManager orchestrator   *)
(* (src/src/scraper/scraper_manager.py), the price normaliser              *)
(* (src/src/scraper/base_scraper.py), the record builders of the adapters  *)
(* (src/src/scraper/sites/*.py, src/src/utils/google_custom_search.py) and *)
(* the estimate-then-rank pipeline of the /search route                    *)
(* (src/src/api/routes.py).                                                *)
(*                                                                         *)
(* Texts are TLA+ strings; a character of a text is SubSeq(s, i, i).       *)
(* None is Python's None, Missing an absent dictionary key.                *)
(***************************************************************************)
EXTENDS Integers, Sequences, FiniteSets, TLC

VARIABLES
    \* ---- ScraperManager (scraper_manager.py)
    scrapers,       \* self.scrapers: the registered adapters, in dict order
    mpc,            \* position of search_products: idle, gathering, done
    country,        \* the country argument of the running call
    relevant,       \* relevant_scrapers of the running call
    dispatched,     \* adapters on which search(country, query) was called
    outcome,        \* per dispatched task: Pending, a raise, or a list
    completed,      \* task indices in the order the tasks finished
    returned,       \* the list search_products returned
    raised,         \* TRUE when search_products itself raised
    \* ---- BaseScraper.clean_price (base_scraper.py)
    ppc,            \* position of the price run: start, once, twice
    raw,            \* the input text (or None)
    cleaned,        \* clean_price(raw)
    cleaned2,       \* clean_price(clean_price(raw))
    \* ---- record builders of the adapters
    rpc,            \* position of the record run: start, built
    path,           \* which code path built the record
    candidate,      \* the candidate the path was given
    rec,            \* the record handed to the caller
    \* ---- /search pipeline (routes.py)
    spc,            \* position of the handler: start, estimated, sorted
    query,          \* query.query
    results,        \* the list search_products_google returned
    estimated,      \* the list after estimate_price on every item
    faulted,        \* TRUE when estimate_price raised on some item
    sorted_results, \* the list the handler returns
    response,       \* the handler's answer: its list or its HTTPException
    \* ---- one adapter's search(country, query)
    apc,            \* position of the search: idle, structured, fetch, ...
    adapter,        \* the adapter whose search runs
    acountry,       \* its country argument
    akeys,          \* which API keys the environment configures
    structured,     \* what the structured endpoint answered
    aresults,       \* the local list `results`
    markup_n,       \* number of markup candidates that survived matching
    ai_items,       \* the parsed completion of the last _extract_with_ai
    ai_returned,    \* the list the last _extract_with_ai returned
    ai_processed,   \* how many items of the completion its loop looked at
    sites,          \* generic_ai: the websites still to be searched
    calls,          \* the external requests made, in order
    areturned,      \* what search returned (or that it raised)
    aborted,        \* TRUE when an `except Exception` handler ended the search
    \* ---- is_likely_year_not_price (google_custom_search.py)
    ypc,            \* position of the year run: start, checked
    ycandidate,     \* price_str
    ytext,          \* text
    yresult,        \* the value returned
    \* ---- GenericAIScraper._extract_with_ai on one page
    epc,            \* position of the extraction: start, returned
    ewebsite,       \* website
    ecompletion,    \* what the AI collaborator answered
    epage,          \* the hyperlinks of html_content, in document order
    eharvested,     \* TRUE when the link harvester ran
    ereturned,      \* the list returned
    \* ---- extract_price_from_text on one text
    tpc,            \* position of the extraction: start, extracted
    ttext,          \* text
    tprice,         \* the price returned
    tcurrency,      \* the currency returned
    \* ---- search_products_google: the price of one search item
    gpc,            \* position: start, priced
    gitem,          \* the item of the search answer
    gprice,         \* price of the record
    gcurrency,      \* currency of the record
    \* ---- GenericAIScraper.get_websites_for_country, concurrent calls
    wkey,           \* TRUE when ai_helper.api_key is set
    ECOMMERCE_SITES, \* the class-level table: country code -> site list
    wpc,            \* per call: idle, awaiting, returned
    wcountry,       \* per call: country_code
    wreturned,      \* per call: the list returned
    whit,           \* per call: TRUE when the entry was there at line 102
    wwrites,        \* per country code: the assignments of line 115 so far
    wai_calls,      \* per country code: the AI requests issued so far
    \* ---- the event loop running the searches gathered by search_products
    lpc,            \* per task: ready, suspended, blocking, done
    lcall,          \* per task: the network call it is in
    lmade           \* per task: the network calls issued so far

mvars == <<scrapers, mpc, country, relevant, dispatched, outcome, completed,
           returned, raised>>
pvars == <<ppc, raw, cleaned, cleaned2>>
rvars == <<rpc, path, candidate, rec>>
svars == <<spc, query, results, estimated, faulted, sorted_results,
           response>>
avars == <<apc, adapter, acountry, akeys, structured, aresults, markup_n,
           ai_items, ai_returned, ai_processed, sites, calls, areturned,
           aborted>>
yvars == <<ypc, ycandidate, ytext, yresult>>
evars == <<epc, ewebsite, ecompletion, epage, eharvested, ereturned>>
tvars == <<tpc, ttext, tprice, tcurrency>>
gvars == <<gpc, gitem, gprice, gcurrency>>
wvars == <<wkey, ECOMMERCE_SITES, wpc, wcountry, wreturned, whit, wwrites,
           wai_calls>>
lvars == <<lpc, lcall, lmade>>
vars == <<mvars, pvars, rvars, svars, avars, yvars, evars, tvars, gvars, wvars, lvars>>

None == "<None>"
Missing == "<Missing>"

(***************************************************************************)
(* Generic helpers on sequences and texts.                                 *)
(***************************************************************************)
Range(s) == {s[i] : i \in 1..Len(s)}

CharAt(s, i) == SubSeq(s, i, i)

RECURSIVE SeqsUpTo(_, _)
\* all sequences over S of length at most n
SeqsUpTo(S, n) ==
    IF n = 0 THEN {<<>>}
    ELSE LET shorter == SeqsUpTo(S, n - 1)
         IN  shorter \cup {Append(q, x) : q \in shorter, x \in S}

RECURSIVE Perms(_)
\* all orderings of the finite set S
Perms(S) ==
    IF S = {} THEN {<<>>}
    ELSE UNION {{<<x>> \o p : p \in Perms(S \ {x})} : x \in S}

(***************************************************************************)
(* str.upper() and str.lower() on the letters the model uses.              *)
(***************************************************************************)
LowerLetters == <<"a","b","c","d","e","f","g","h","i","j","k","l","m",
                  "n","o","p","q","r","s","t","u","v","w","x","y","z">>
UpperLetters == <<"A","B","C","D","E","F","G","H","I","J","K","L","M",
                  "N","O","P","Q","R","S","T","U","V","W","X","Y","Z">>

UpperChar(c) ==
    IF \E i \in 1..26 : LowerLetters[i] = c
    THEN UpperLetters[CHOOSE i \in 1..26 : LowerLetters[i] = c]
    ELSE c

LowerChar(c) ==
    IF \E i \in 1..26 : UpperLetters[i] = c
    THEN LowerLetters[CHOOSE i \in 1..26 : UpperLetters[i] = c]
    ELSE c

RECURSIVE Upper(_)
Upper(s) == IF Len(s) = 0 THEN "" ELSE UpperChar(CharAt(s, 1)) \o Upper(Tail(s))

RECURSIVE Lower(_)
Lower(s) == IF Len(s) = 0 THEN "" ELSE LowerChar(CharAt(s, 1)) \o Lower(Tail(s))

\* Body(v) with v evaluated once, however often Body refers to it
Once(v, Body(_)) == CHOOSE r \in {Body(x) : x \in {v}} : TRUE

\* Python's `needle in hay` on texts
Contains(hay, needle) ==
    \E i \in 1..(Len(hay) - Len(needle) + 1) :
        SubSeq(hay, i, i + Len(needle) - 1) = needle

(***************************************************************************)
(* ScraperManager: the registry, adapter selection, concurrent dispatch    *)
(* and the merge of the task outcomes.                                     *)
(***************************************************************************)
\* adapters discovered in the sites directory, and the one appended last
DynamicAdapters == {"amazon", "flipkart", "generic_ai"}
Adapters == DynamicAdapters \cup {"google_custom_search"}

supported_countries ==
    [a \in Adapters |->
        CASE a = "amazon" ->
                {"US", "UK", "DE", "FR", "ES", "IT", "JP", "IN", "CA", "AU", "ALL"}
          [] a = "flipkart" -> {"IN"}
          [] a = "generic_ai" -> {"ALL"}
          [] a = "google_custom_search" -> {"ALL"}]

\* _load_scrapers: every module that imports is registered, in the order
\* glob lists the files; google_custom_search comes last unless loading
\* was cut short by the outer except.
Registries ==
    LET dyn == UNION {Perms(S) : S \in SUBSET DynamicAdapters}
    IN  dyn \cup {Append(r, "google_custom_search") : r \in dyn}

\* the countries a caller asks for, in several letter cases
Countries == {"US", "us", "IN", "in", "BR", "ALL"}

\* bounds on what one adapter returns
MaxResults == 2
Links == {"l1", "l2"}

\* A record as the orchestrator sees it: its link, and the adapter that
\* created it.
Records == [link : Links, origin : Adapters]

Pending == [kind |-> "pending"]
Raise == [kind |-> "raise"]
ListOf(items) == [kind |-> "list", items |-> items]

\* the lists of links an adapter may return
LinkLists == SeqsUpTo(Links, MaxResults)

\* the lists adapter a may return
ResultLists(a) ==
    {[i \in 1..Len(q) |-> [link |-> q[i], origin |-> a]] : q \in LinkLists}

get_relevant_scrapers(reg, c) ==
    SelectSeq(reg, LAMBDA s :
        Upper(c) \in {Upper(x) : x \in supported_countries[s]})

\* lines 75-78: the adapters that carry the wildcard
wildcard_scrapers(reg) ==
    SelectSeq(reg, LAMBDA s : "ALL" \in supported_countries[s])

relevant_scrapers_nofallback(reg, c) == get_relevant_scrapers(reg, c)

\* lines 72-78: relevant_scrapers after the fallback
relevant_scrapers(reg, c) ==
    IF get_relevant_scrapers(reg, c) # <<>>
    THEN get_relevant_scrapers(reg, c)
    ELSE wildcard_scrapers(reg)

\* asyncio.gather(*tasks): the outcomes in the order of the awaitables
gather_completion_order(out, done) == [k \in 1..Len(done) |-> out[done[k]]]

gather(out, done) == [i \in 1..Len(out) |-> out[i]]

\* gather without return_exceptions re-raises the first exception
gather_reraises(res) == \E i \in 1..Len(res) : res[i].kind = "raise"

\* return_exceptions=True: exceptions are returned as results
gather_raises(res) == FALSE

RECURSIVE processed_results(_)
\* lines 89-98: skip the exceptions, extend with every list
processed_results(res) ==
    IF res = <<>> THEN <<>>
    ELSE IF Head(res).kind = "list"
         THEN Head(res).items \o processed_results(Tail(res))
         ELSE processed_results(Tail(res))

MIdle ==
    /\ mpc = "idle"
    /\ country = None
    /\ relevant = <<>>
    /\ dispatched = <<>>
    /\ outcome = <<>>
    /\ completed = <<>>
    /\ returned = <<>>
    /\ raised = FALSE

\* search_products up to the await of gather: select, and call search on
\* every selected adapter (line 85), or return [] when none is selected.
search_products(c) ==
    /\ mpc = "idle"
    /\ country' = c
    /\ relevant' = relevant_scrapers(scrapers, c)
    /\ IF relevant' = <<>>
       THEN /\ mpc' = "done"
            /\ dispatched' = <<>>
            /\ outcome' = <<>>
       ELSE /\ mpc' = "gathering"
            /\ dispatched' = relevant'
            /\ outcome' = [i \in 1..Len(relevant') |-> Pending]
    /\ UNCHANGED <<scrapers, completed, returned, raised>>
    /\ UNCHANGED <<pvars, rvars, svars, avars, yvars, evars, tvars, gvars,
                   wvars, lvars>>

\* the search coroutine of task i returns a list
TaskReturns(i) ==
    /\ mpc = "gathering"
    /\ i \in 1..Len(outcome)
    /\ outcome[i] = Pending
    /\ \E items \in ResultLists(dispatched[i]) :
           outcome' = [outcome EXCEPT ![i] = ListOf(items)]
    /\ completed' = Append(completed, i)
    /\ UNCHANGED <<scrapers, mpc, country, relevant, dispatched, returned, raised>>
    /\ UNCHANGED <<pvars, rvars, svars, avars, yvars, evars, tvars, gvars,
                   wvars, lvars>>

\* the search coroutine of task i raises
TaskRaises(i) ==
    /\ mpc = "gathering"
    /\ i \in 1..Len(outcome)
    /\ outcome[i] = Pending
    /\ outcome' = [outcome EXCEPT ![i] = Raise]
    /\ completed' = Append(completed, i)
    /\ UNCHANGED <<scrapers, mpc, country, relevant, dispatched, returned, raised>>
    /\ UNCHANGED <<pvars, rvars, svars, avars, yvars, evars, tvars, gvars,
                   wvars, lvars>>

\* gather resumes once every task has finished; lines 88-98 merge
GatherDone ==
    /\ mpc = "gathering"
    /\ \A i \in 1..Len(outcome) : outcome[i] # Pending
    /\ mpc' = "done"
    /\ LET res == gather(outcome, completed)
       IN  IF gather_raises(res)
           THEN /\ raised' = TRUE
                /\ returned' = <<>>
           ELSE /\ raised' = FALSE
                /\ returned' = processed_results(res)
    /\ UNCHANGED <<scrapers, country, relevant, dispatched, outcome, completed>>
    /\ UNCHANGED <<pvars, rvars, svars, avars, yvars, evars, tvars, gvars,
                   wvars, lvars>>

(***************************************************************************)
(* BaseScraper.clean_price, with float() and str() of a float modelled on  *)
(* decimal texts: float(s) accepts [sign] digits [. digits] [e [sign]      *)
(* digits] with at least one mantissa digit; str(float(s)) is the shortest *)
(* decimal that reads back, which for texts of fewer than 16 digits is the *)
(* normalised numeral, in exponent form below 1e-4.                        *)
(***************************************************************************)
Digits == {"0", "1", "2", "3", "4", "5", "6", "7", "8", "9"}
DigitText == <<"0", "1", "2", "3", "4", "5", "6", "7", "8", "9">>

\* bound on the length of a raw price text, and its alphabet
MaxPriceLen == 5
PriceChars == {"0", "1", ".", ",", "$", "-"}

RECURSIVE TextsUpTo(_, _)
TextsUpTo(S, n) ==
    IF n = 0 THEN {""}
    ELSE LET shorter == TextsUpTo(S, n - 1)
         IN  shorter \cup {q \o x : q \in shorter, x \in S}

RawPrices == TextsUpTo(PriceChars, MaxPriceLen) \cup {None}

RECURSIVE KeepChars(_, _)
\* ''.join(c for c in s if c in keep)
KeepChars(s, keep) ==
    IF Len(s) = 0 THEN ""
    ELSE (IF CharAt(s, 1) \in keep THEN CharAt(s, 1) ELSE "")
         \o KeepChars(Tail(s), keep)

RECURSIVE ReplaceChar(_, _, _)
\* s.replace(old, new) for a one-character old
ReplaceChar(s, old, new) ==
    IF Len(s) = 0 THEN ""
    ELSE (IF CharAt(s, 1) = old THEN new ELSE CharAt(s, 1))
         \o ReplaceChar(Tail(s), old, new)

\* s.index(c), for a text that contains c
IndexOf(s, c) == CHOOSE i \in 1..Len(s) :
    /\ CharAt(s, i) = c
    /\ \A j \in 1..(i - 1) : CharAt(s, j) # c

AllDigits(s) == \A i \in 1..Len(s) : CharAt(s, i) \in Digits

\* digits [. digits] with at least one digit
IsMantissa(s) ==
    IF Contains(s, ".")
    THEN LET d == IndexOf(s, ".")
         IN  /\ AllDigits(SubSeq(s, 1, d - 1))
             /\ AllDigits(SubSeq(s, d + 1, Len(s)))
             /\ Len(s) > 1
    ELSE Len(s) > 0 /\ AllDigits(s)

Unsigned(s) ==
    IF Len(s) > 0 /\ CharAt(s, 1) \in {"-", "+"} THEN Tail(s) ELSE s

IsNegativeText(s) == Len(s) > 0 /\ CharAt(s, 1) = "-"

\* mantissa [e [sign] digits]
IsUnsignedFloat(s) ==
    IF Contains(s, "e")
    THEN LET k == IndexOf(s, "e")
             ex == Unsigned(SubSeq(s, k + 1, Len(s)))
         IN  /\ IsMantissa(SubSeq(s, 1, k - 1))
             /\ Len(ex) > 0
             /\ AllDigits(ex)
    ELSE IsMantissa(s)

\* float(s) does not raise ValueError
IsFloatLiteral(s) == IsUnsignedFloat(Unsigned(s))

RECURSIVE StripLeadingZeros(_)
StripLeadingZeros(s) ==
    IF Len(s) > 0 /\ CharAt(s, 1) = "0" THEN StripLeadingZeros(Tail(s)) ELSE s

RECURSIVE StripTrailingZeros(_)
StripTrailingZeros(s) ==
    IF Len(s) > 0 /\ CharAt(s, Len(s)) = "0"
    THEN StripTrailingZeros(SubSeq(s, 1, Len(s) - 1))
    ELSE s

IntPart(s) == IF Contains(s, ".") THEN SubSeq(s, 1, IndexOf(s, ".") - 1) ELSE s
FracPart(s) ==
    IF Contains(s, ".") THEN SubSeq(s, IndexOf(s, ".") + 1, Len(s)) ELSE ""

TwoDigits(n) == DigitText[(n \div 10) + 1] \o DigitText[(n % 10) + 1]

\* str(float(s)) for an unsigned mantissa s
MantissaStr(s) ==
    LET ip == StripLeadingZeros(IntPart(s))
        fp == StripTrailingZeros(FracPart(s))
        sig == StripLeadingZeros(fp)
        zeros == Len(fp) - Len(sig)
    IN  IF ip # "" THEN ip \o "." \o (IF fp = "" THEN "0" ELSE fp)
        ELSE IF fp = "" THEN "0.0"
        ELSE IF zeros < 4 THEN "0." \o fp
        ELSE CharAt(sig, 1)
             \o (IF Len(sig) > 1 THEN "." \o Tail(sig) ELSE "")
             \o "e-" \o TwoDigits(zeros + 1)

\* str(float(s)) for a signed mantissa s
FloatStr(s) ==
    (IF IsNegativeText(s) THEN "-" ELSE "") \o MantissaStr(Unsigned(s))

\* line 96: the characters clean_price keeps
KeptChars == Digits \cup {".", ","}

\* lines 98-103: thousands separators and decimal commas
separators(clean) ==
    IF Contains(clean, ",") /\ Contains(clean, ".")
    THEN IF IndexOf(clean, ",") < IndexOf(clean, ".")
         THEN KeepChars(clean, Digits \cup {"."})
         ELSE clean
    ELSE IF Contains(clean, ",")
         THEN ReplaceChar(clean, ",", ".")
         ELSE clean

\* the text handed to float() at line 106
numeral(price) == separators(KeepChars(price, KeptChars))

clean_price_keeps_sign(price) ==
    IF price = None \/ price = "" THEN "0"
    ELSE LET clean == separators(KeepChars(price, KeptChars \cup {"-"}))
         IN  IF IsFloatLiteral(clean) THEN FloatStr(clean) ELSE "0"

clean_price(price) ==
    IF price = None \/ price = "" THEN "0"
    ELSE LET clean == numeral(price)
         IN  IF IsFloatLiteral(clean) THEN FloatStr(clean) ELSE "0"

PIdle ==
    /\ ppc = "start"
    /\ raw = None
    /\ cleaned = None
    /\ cleaned2 = None

\* a caller cleans a raw price text
FirstClean ==
    /\ ppc = "start"
    /\ ppc' = "once"
    /\ cleaned' = clean_price(raw)
    /\ UNCHANGED <<raw, cleaned2>>
    /\ UNCHANGED <<mvars, rvars, svars, avars, yvars, evars, tvars, gvars,
                   wvars, lvars>>

\* and cleans the result again
SecondClean ==
    /\ ppc = "once"
    /\ ppc' = "twice"
    /\ cleaned2' = clean_price(cleaned)
    /\ UNCHANGED <<raw, cleaned>>
    /\ UNCHANGED <<mvars, rvars, svars, avars, yvars, evars, tvars, gvars,
                   wvars, lvars>>

(***************************************************************************)
(* Product records.  A dictionary value is a text, None, or Missing (the   *)
(* key is absent).  additionalInfo is described by its kind (missing,      *)
(* none, dict, or other: a non-empty value that is no mapping), the keys   *)
(* it holds besides priceEstimated, and whether it holds                   *)
(* priceEstimated = True.                                                  *)
(***************************************************************************)
IsText(v) == v # None /\ v # Missing

\* Python truthiness of a dictionary value read with .get()
Truthy(v) == IsText(v) /\ v # ""

PrimaryFields == {"link", "price", "currency", "productName", "source", "imageUrl"}

AIMissing == [kind |-> "missing", keys |-> {}, priceEstimated |-> FALSE]
AINone == [kind |-> "none", keys |-> {}, priceEstimated |-> FALSE]
AIDict(keys) == [kind |-> "dict", keys |-> keys, priceEstimated |-> FALSE]
AIOther == [kind |-> "other", keys |-> {}, priceEstimated |-> FALSE]

\* `not product.get('additionalInfo')`
AIFalsy(ai) ==
    \/ ai.kind \in {"missing", "none"}
    \/ ai.kind = "dict" /\ ai.keys = {} /\ ~ai.priceEstimated

Product(link, price, currency, name, source, image, ai) ==
    [link |-> link, price |-> price, currency |-> currency,
     productName |-> name, source |-> source, imageUrl |-> image,
     additionalInfo |-> ai]

(***************************************************************************)
(* routes.py: estimate_price and the ranking key.                          *)
(***************************************************************************)
\* d.get(key, '') of a text-valued key
GetOrEmpty(v) == IF v = Missing THEN "" ELSE v

LuxuryKeywords == {"omega", "tudor", "vacheron", "constantin", "luxury"}

Returns(product) == [raises |-> FALSE, product |-> product]
Raises(product) == [raises |-> TRUE, product |-> product]

WithEstimate_fresh_info(product, price) ==
    IF product.additionalInfo.kind = "other"
    THEN Raises([product EXCEPT !.price = price])
    ELSE Returns([product EXCEPT
            !.price = price,
            !.additionalInfo =
                [kind |-> "dict", keys |-> {}, priceEstimated |-> TRUE]])

\* lines 33-36 and their repetitions: set the price, replace a falsy
\* additionalInfo by {}, and set the marker; item assignment on a value
\* that is no mapping raises TypeError, after the price was set
WithEstimate(product, price) ==
    IF product.additionalInfo.kind = "other"
    THEN Raises([product EXCEPT !.price = price])
    ELSE Returns([product EXCEPT
            !.price = price,
            !.additionalInfo =
                IF AIFalsy(product.additionalInfo)
                THEN [kind |-> "dict", keys |-> {}, priceEstimated |-> TRUE]
                ELSE [product.additionalInfo EXCEPT !.priceEstimated = TRUE]])

\* One `elif` of lines 32-57 of the brand rules: kw_name in product_name
\* or kw_source in product.get('source', '').lower(); the source is read
\* only when the name does not match, and .lower() of None raises.
RuleFires(product_name, product, kw_name, kw_source) ==
    \/ Contains(product_name, kw_name)
    \/ /\ product.source # None
       /\ Contains(Lower(GetOrEmpty(product.source)), kw_source)

RuleRaises(product_name, product, kw_name) ==
    /\ ~Contains(product_name, kw_name)
    /\ product.source = None

estimate_price_garmin_first(product, q) ==
    IF product.productName = None THEN Raises(product)
    ELSE LET product_name == Lower(GetOrEmpty(product.productName))
         IN  IF Truthy(product.price) THEN Returns(product)
             ELSE IF RuleRaises(product_name, product, "garmin")
                  THEN Raises(product)
             ELSE IF RuleFires(product_name, product, "garmin", "garmin")
                  THEN WithEstimate(product, "299")
             ELSE IF RuleFires(product_name, product, "apple watch", "apple")
                  THEN WithEstimate(product, "399")
             ELSE IF RuleFires(product_name, product, "amazfit", "amazfit")
                  THEN WithEstimate(product, "149")
             ELSE IF RuleFires(product_name, product, "fitbit", "fitbit")
                  THEN WithEstimate(product, "199")
             ELSE IF \E luxury \in LuxuryKeywords :
                        Contains(product_name, luxury)
                  THEN WithEstimate(product, "2999")
             ELSE IF \/ Contains(product_name, "smartwatch")
                     \/ Contains(product_name, "smart watch")
                     \/ Contains(Lower(q), "smartwatch")
                  THEN WithEstimate(product, "149")
             ELSE Returns(product)

estimate_price_overwrites(product, q) ==
    IF product.productName = None THEN Raises(product)
    ELSE LET product_name == Lower(GetOrEmpty(product.productName))
         IN  IF RuleRaises(product_name, product, "apple watch")
                  THEN Raises(product)
             ELSE IF RuleFires(product_name, product, "apple watch", "apple")
                  THEN WithEstimate(product, "399")
             ELSE IF RuleFires(product_name, product, "garmin", "garmin")
                  THEN WithEstimate(product, "299")
             ELSE IF RuleFires(product_name, product, "amazfit", "amazfit")
                  THEN WithEstimate(product, "149")
             ELSE IF RuleFires(product_name, product, "fitbit", "fitbit")
                  THEN WithEstimate(product, "199")
             ELSE IF \E luxury \in LuxuryKeywords :
                        Contains(product_name, luxury)
                  THEN WithEstimate(product, "2999")
             ELSE IF \/ Contains(product_name, "smartwatch")
                     \/ Contains(product_name, "smart watch")
                     \/ Contains(Lower(q), "smartwatch")
                  THEN WithEstimate(product, "149")
             ELSE Returns(product)

\* estimate_price(product, query): the dictionary as it is left, and
\* whether the call raised
estimate_price(product, q) ==
    IF product.productName = None THEN Raises(product)
    ELSE LET product_name == Lower(GetOrEmpty(product.productName))
         IN  IF Truthy(product.price) THEN Returns(product)
             ELSE IF RuleRaises(product_name, product, "apple watch")
                  THEN Raises(product)
             ELSE IF RuleFires(product_name, product, "apple watch", "apple")
                  THEN WithEstimate(product, "399")
             ELSE IF RuleFires(product_name, product, "garmin", "garmin")
                  THEN WithEstimate(product, "299")
             ELSE IF RuleFires(product_name, product, "amazfit", "amazfit")
                  THEN WithEstimate(product, "149")
             ELSE IF RuleFires(product_name, product, "fitbit", "fitbit")
                  THEN WithEstimate(product, "199")
             ELSE IF \E luxury \in LuxuryKeywords :
                        Contains(product_name, luxury)
                  THEN WithEstimate(product, "2999")
             ELSE IF \/ Contains(product_name, "smartwatch")
                     \/ Contains(product_name, "smart watch")
                     \/ Contains(Lower(q), "smartwatch")
                  THEN WithEstimate(product, "149")
             ELSE Returns(product)

\* number of decimals the model keeps of a float
KeyScale == 2

RECURSIVE Pow10(_)
Pow10(n) == IF n = 0 THEN 1 ELSE 10 * Pow10(n - 1)

DigitValue(c) == CHOOSE d \in 0..9 : DigitText[d + 1] = c

RECURSIVE DigitsValue(_)
DigitsValue(s) ==
    IF Len(s) = 0 THEN 0
    ELSE 10 * DigitsValue(SubSeq(s, 1, Len(s) - 1)) + DigitValue(CharAt(s, Len(s)))

RECURSIVE Zeros(_)
Zeros(n) == IF n = 0 THEN "" ELSE "0" \o Zeros(n - 1)

\* float(s) in units of 10^-KeyScale, for a literal without exponent and
\* with at most KeyScale decimals
FloatValue(s) ==
    LET u == Unsigned(s)
        frac == SubSeq(FracPart(u) \o Zeros(KeyScale), 1, KeyScale)
        magnitude == DigitsValue(IntPart(u)) * Pow10(KeyScale) + DigitsValue(frac)
    IN  IF IsNegativeText(s) THEN 0 - magnitude ELSE magnitude

get_price_for_sorting_keeps_commas(item) ==
    IF item.price = None THEN 0
    ELSE LET text == IF item.price = Missing THEN "0" ELSE item.price
         IN  IF IsFloatLiteral(text) THEN FloatValue(text) ELSE 0

\* lines 83-87: float(item.get("price", "0").replace(",", "")), and 0 on
\* ValueError (no numeral) or AttributeError (None has no replace)
get_price_for_sorting(item) ==
    IF item.price = None THEN 0
    ELSE LET text == ReplaceChar(IF item.price = Missing THEN "0" ELSE item.price,
                                 ",", "")
         IN  IF IsFloatLiteral(text) THEN FloatValue(text) ELSE 0

RECURSIVE InsertByKey(_, _)
\* x placed behind every element whose key is not larger
InsertByKey(seq, x) ==
    IF seq = <<>> THEN <<x>>
    ELSE IF get_price_for_sorting(seq[Len(seq)]) <= get_price_for_sorting(x)
         THEN Append(seq, x)
         ELSE Append(InsertByKey(SubSeq(seq, 1, Len(seq) - 1), x), seq[Len(seq)])

sorted_keeps_order(seq) == seq

RECURSIVE sorted(_)
\* line 89: sorted(results, key=get_price_for_sorting), a stable sort
sorted(seq) ==
    IF seq = <<>> THEN <<>>
    ELSE InsertByKey(sorted(SubSeq(seq, 1, Len(seq) - 1)), seq[Len(seq)])

RECURSIVE estimate_all(_, _)
\* line 79: [estimate_price(item, query.query) for item in results]; the
\* dictionaries are changed in place, and the first raise ends the loop
estimate_all(items, q) ==
    IF items = <<>> THEN [raises |-> FALSE, items |-> <<>>]
    ELSE LET first == estimate_price(Head(items), q)
             rest == estimate_all(Tail(items), q)
         IN  IF first.raises
             THEN [raises |-> TRUE, items |-> <<first.product>> \o Tail(items)]
             ELSE [raises |-> rest.raises, items |-> <<first.product>> \o rest.items]

\* ---- inputs of the /search pipeline
Queries == {"apple watch", "garmin watch", "Smartwatch", "casio"}

\* bound on the length of a result list
MaxItems == 4

ItemLinks == [i \in 1..MaxItems |-> "item" \o DigitText[i + 1]]

\* the records result lists are built from: prices that parse, that do not
\* parse, that carry a thousands separator and decimals, and an empty one
ListProducts ==
    {Product("", price, "USD", "Casio F91W", "shop.example", "", AIMissing) :
        price \in {"299", "abc", "", "149", "1,299.5"}}

\* the records a single-item list is built from
ProductNames ==
    {"Apple Watch SE", "Apple AirPods", "Garmin Instinct",
     "Garmin strap for Apple Watch", "AMAZFIT Bip", "Fitbit Versa",
     "Omega Seamaster", "Noise Smartwatch", "boAt Smart Watch", "Casio F91W",
     "", None, Missing}
ProductSources ==
    {"some-store", "Apple Store", "garmin.com", "fitbit.com", "omega-boutique",
     None, Missing}
ProductPrices == {"", "149", "0", None, Missing}
ProductInfos == {AIMissing, AINone, AIDict({}), AIDict({"rating"}), AIOther}

SingleProducts ==
    {Product("", price, "", name, source, "", ai) :
        price \in ProductPrices, name \in ProductNames,
        source \in ProductSources, ai \in ProductInfos}

\* item i of a list gets link ItemLinks[i], so that no two items are equal
Linked(items) == [i \in 1..Len(items) |-> [items[i] EXCEPT !.link = ItemLinks[i]]]

\* a priced and an unpriced record of the same brand
ForerunnerRecord ==
    Product("", "199.99", "USD", "Garmin Forerunner 55", "shop.example", "",
            AIMissing)
InstinctRecord ==
    Product("", "", "", "Garmin Instinct", "shop.example", "", AIMissing)

PairLists == SeqsUpTo({ForerunnerRecord, InstinctRecord}, 2)

ResultListsOfSearch ==
    {Linked(items) : items \in SeqsUpTo(ListProducts, MaxItems)}
    \cup {Linked(<<p>>) : p \in SingleProducts}
    \cup {Linked(items) : items \in PairLists}

\* the handler has not answered yet
NoResponse == [status |-> 0, body |-> <<>>, detail |-> ""]

\* line 76 and line 92: the list is the body of the answer
list_response(items) == [status |-> 200, body |-> items, detail |-> ""]

error_response_without_text(text) ==
    [status |-> 500, body |-> <<>>, detail |-> "Error searching products: "]

\* lines 93-95: HTTPException(500, f"Error searching products: {str(e)}")
error_response(text) ==
    [status |-> 500, body |-> <<>>,
     detail |-> "Error searching products: " \o text]

\* google_custom_search.py line 142: the text of the ValueError raised
\* without the API key or the engine id
SearchErrors == {"Google Custom Search API key and CSE ID must be set."}

\* str(e) of what estimate_price raises on this product: item assignment on
\* an additionalInfo that is no mapping (a string here) after the price was
\* set, or .lower() of None
estimate_error_text(product, q) ==
    IF estimate_price(product, q).product.price # product.price
    THEN "'str' object does not support item assignment"
    ELSE "'NoneType' object has no attribute 'lower'"

\* the first item on which estimate_price raises
first_raising(items, q) ==
    items[CHOOSE i \in 1..Len(items) :
              /\ estimate_price(items[i], q).raises
              /\ \A j \in 1..(i - 1) : ~estimate_price(items[j], q).raises]

SIdle ==
    /\ spc = "start"
    /\ query = None
    /\ results = <<>>
    /\ estimated = <<>>
    /\ faulted = FALSE
    /\ sorted_results = <<>>
    /\ response = NoResponse

\* line 72 raises instead of returning `results`: the handler of lines
\* 93-95 answers 500
SearchRaises ==
    /\ spc = "start"
    /\ \E text \in SearchErrors : response' = error_response(text)
    /\ spc' = "search_failed"
    /\ UNCHANGED <<query, results, estimated, faulted, sorted_results>>
    /\ UNCHANGED <<mvars, pvars, rvars, avars, yvars, evars, tvars, gvars,
                   wvars, lvars>>

\* lines 72-79: an empty result is returned at once; otherwise every item
\* is estimated, and a raise becomes the HTTP 500 of lines 93-95
EstimateStage ==
    /\ spc = "start"
    /\ IF results = <<>>
       THEN /\ spc' = "done"
            /\ response' = list_response(<<>>)
            /\ UNCHANGED <<estimated, faulted>>
       ELSE LET all == estimate_all(results, query)
            IN  /\ estimated' = all.items
                /\ faulted' = all.raises
                /\ spc' = IF all.raises THEN "failed" ELSE "estimated"
                /\ response' =
                       IF all.raises
                       THEN error_response(
                                estimate_error_text(
                                    first_raising(results, query), query))
                       ELSE response
    /\ UNCHANGED <<query, results, sorted_results>>
    /\ UNCHANGED <<mvars, pvars, rvars, avars, yvars, evars, tvars, gvars,
                   wvars, lvars>>

\* lines 81-92: sort and return
RankStage ==
    /\ spc = "estimated"
    /\ sorted_results' = sorted(estimated)
    /\ response' = list_response(sorted_results')
    /\ spc' = "done"
    /\ UNCHANGED <<query, results, estimated, faulted>>
    /\ UNCHANGED <<mvars, pvars, rvars, avars, yvars, evars, tvars, gvars,
                   wvars, lvars>>

(***************************************************************************)
(* The record builders: for each code path that creates a ProductRecord,   *)
(* the record it creates from one candidate (a provider product, a markup  *)
(* node, an item of the AI completion, a hyperlink, a search item), or     *)
(* NoRecord when the path drops the candidate.                             *)
(***************************************************************************)
NoRecord == [dropped |-> TRUE]

NoneToEmpty(v) == IF v = None THEN "" ELSE v

\* d.get(k1, d.get(k2, ''))
Get2(primary, secondary) ==
    IF primary # Missing THEN primary ELSE GetOrEmpty(secondary)

\* a or b or '' on values read with .get()
FirstTruthy(a, b) == IF Truthy(a) THEN a ELSE IF Truthy(b) THEN b ELSE ""

StartsWith(s, prefix) ==
    Len(s) >= Len(prefix) /\ SubSeq(s, 1, Len(prefix)) = prefix

IsSpace(c) == c = " "

RECURSIVE split(_)
\* str.split(): the whitespace-delimited words
split(s) ==
    IF Len(s) = 0 THEN <<>>
    ELSE IF IsSpace(CharAt(s, 1)) THEN split(Tail(s))
    ELSE LET stop == IF \E i \in 1..Len(s) : IsSpace(CharAt(s, i))
                     THEN (CHOOSE i \in 1..Len(s) :
                              /\ IsSpace(CharAt(s, i))
                              /\ \A j \in 1..(i - 1) : ~IsSpace(CharAt(s, j))) - 1
                     ELSE Len(s)
         IN  <<SubSeq(s, 1, stop)>> \o split(SubSeq(s, stop + 1, Len(s)))

\* BaseScraper.match_product
match_product(product_name, q) ==
    \A word \in Range(split(Lower(q))) : Contains(Lower(product_name), word)

\* AmazonScraper.get_domain
get_domain(c) ==
    LET cc == Upper(c)
    IN  CASE cc = "US" -> "amazon.com"
          [] cc = "UK" -> "amazon.co.uk"
          [] cc = "DE" -> "amazon.de"
          [] cc = "FR" -> "amazon.fr"
          [] cc = "ES" -> "amazon.es"
          [] cc = "IT" -> "amazon.it"
          [] cc = "JP" -> "amazon.co.jp"
          [] cc = "IN" -> "amazon.in"
          [] cc = "CA" -> "amazon.ca"
          [] cc = "AU" -> "amazon.com.au"
          [] OTHER -> "amazon.com"

\* AmazonScraper.search, structured endpoint, lines 85-98
amazon_structured_record(prod, c) ==
    Product(NoneToEmpty(Get2(prod.url, prod.product_url)),
            NoneToEmpty(Get2(prod.pricing, prod.price)),
            NoneToEmpty(GetOrEmpty(prod.currency)),
            NoneToEmpty(Get2(prod.name, prod.title)),
            "Amazon " \o c,
            NoneToEmpty(IF prod.images0 # Missing THEN prod.images0
                        ELSE GetOrEmpty(prod.image)),
            IF prod.product_information.kind = "missing" THEN AINone
            ELSE prod.product_information)

\* the markup loops: AmazonScraper.search lines 124-187 and
\* FlipkartScraper.search lines 60-113.  node.href is the href attribute of
\* the link element (None when the element has none, Missing when there
\* is no link element), node.name the text of the
\* name element ("" when there is none), node.price_text the text of the
\* price element ("" when there is none), node.src the image source (None
\* when there is no image element).
markup_record(node, q, origin, source, currency) ==
    IF node.href = Missing THEN NoRecord
    ELSE IF node.name = "" \/ ~match_product(node.name, q) THEN NoRecord
    ELSE Product(IF node.href # None /\ StartsWith(node.href, "/")
                 THEN "https://www." \o origin \o node.href
                 ELSE node.href,
                 clean_price(node.price_text),
                 currency,
                 node.name,
                 source,
                 node.src,
                 AIDict({"rating", "reviews"}))

\* lines 270-274 of amazon.py (and their copies): a None or absent string
\* field becomes ""
StringField(v) == IF v = None \/ v = Missing THEN "" ELSE v

\* "Fix additionalInfo": a value that is neither a mapping nor None
\* becomes {"info": str(value)}
FixedInfo(ai) == IF ai.kind = "other" THEN AIDict({"info"}) ELSE ai

\* AmazonScraper._extract_with_ai lines 260-275 and
\* FlipkartScraper._extract_with_ai lines 149-166, for one item
ai_record(item, source, default_currency) ==
    IF item.productName = Missing \/ item.price = Missing THEN NoRecord
    ELSE Product(StringField(item.link),
                 StringField(item.price),
                 StringField(IF item.currency = Missing /\ default_currency # Missing
                             THEN default_currency ELSE item.currency),
                 StringField(item.productName),
                 source,
                 StringField(item.imageUrl),
                 FixedInfo(item.additionalInfo))

\* GenericAIScraper.PRODUCT_URL_PATTERNS, and re.search of the pattern of
\* a domain in a link (TRUE for a domain without pattern)
HasPattern(domain) ==
    domain \in {"amazon.in", "flipkart.com", "myntra.com", "snapdeal.com"}

MatchesPattern(domain, link) ==
    CASE domain = "amazon.in" ->
            Contains(link, "/dp/") \/ Contains(link, "/gp/product/")
      [] domain = "flipkart.com" ->
            \/ Contains(link, "/p/")
            \/ Contains(link, "/product/")
            \/ Contains(link, "/search?q=")
      [] domain = "myntra.com" -> Contains(link, "/buy")
      [] domain = "snapdeal.com" ->
            Contains(link, "/product/") \/ Contains(link, "/search?")
      [] OTHER -> TRUE

\* the liveness probe: HEAD answered 200 without error
ProbeOk(probe) == probe = "200"

generic_ai_record_unprobed(item, website, probe) ==
    IF ~Truthy(item.productName) THEN NoRecord
    ELSE LET link0 ==
                 IF Truthy(item.link)
                    /\ ~StartsWith(item.link, "http://")
                    /\ ~StartsWith(item.link, "https://")
                 THEN IF StartsWith(item.link, "/")
                      THEN "https://www." \o website \o item.link
                      ELSE "https://www." \o website \o "/" \o item.link
                 ELSE item.link
             source == IF item.source = Missing THEN website ELSE item.source
             price0 == IF Truthy(item.price) THEN clean_price(item.price)
                       ELSE item.price
             link == StringField(link0)
             price == StringField(price0)
         IN  IF link = "" \/ price = "" THEN NoRecord
             ELSE IF ~Contains(Lower(link), website) THEN NoRecord
             ELSE IF HasPattern(website) /\ ~MatchesPattern(website, link)
                  THEN NoRecord
             ELSE Product(link, price, StringField(item.currency),
                          StringField(item.productName), source,
                          StringField(item.imageUrl),
                          FixedInfo(item.additionalInfo))

\* GenericAIScraper._extract_with_ai lines 209-259, for one item
generic_ai_record(item, website, probe) ==
    IF ~Truthy(item.productName) THEN NoRecord
    ELSE LET link0 ==
                 IF Truthy(item.link)
                    /\ ~StartsWith(item.link, "http://")
                    /\ ~StartsWith(item.link, "https://")
                 THEN IF StartsWith(item.link, "/")
                      THEN "https://www." \o website \o item.link
                      ELSE "https://www." \o website \o "/" \o item.link
                 ELSE item.link
             source == IF item.source = Missing THEN website ELSE item.source
             price0 == IF Truthy(item.price) THEN clean_price(item.price)
                       ELSE item.price
             link == StringField(link0)
             price == StringField(price0)
         IN  IF link = "" \/ price = "" THEN NoRecord
             ELSE IF ~Contains(Lower(link), website) THEN NoRecord
             ELSE IF HasPattern(website) /\ ~MatchesPattern(website, link)
                  THEN NoRecord
             ELSE IF ~ProbeOk(probe) THEN NoRecord
             ELSE Product(link, price, StringField(item.currency),
                          StringField(item.productName), source,
                          StringField(item.imageUrl),
                          FixedInfo(item.additionalInfo))

\* GenericAIScraper._extract_with_ai lines 260-299, for one hyperlink
harvester_record(a, website, probe) ==
    IF ~Contains(a.href, website) THEN NoRecord
    ELSE IF HasPattern(website) /\ ~MatchesPattern(website, a.href)
         THEN NoRecord
    ELSE LET name == IF a.text # "" THEN a.text ELSE GetOrEmpty(a.title)
             link == IF StartsWith(a.href, "http") THEN a.href
                     ELSE "https://" \o website
                          \o (IF StartsWith(a.href, "/") THEN a.href
                              ELSE "/" \o a.href)
         IN  IF ~Truthy(name) THEN NoRecord
             ELSE IF ~ProbeOk(probe) THEN NoRecord
             ELSE Product(link, "", "", name, website, "", AINone)

\* search_products_google lines 224-257, for one search item whose price
\* and currency were extracted before
google_record(item) ==
    LET name0 == IF Truthy(item.name) THEN item.name
                 ELSE IF Truthy(item.ogtitle) THEN item.ogtitle
                 ELSE GetOrEmpty(item.title)
    IN  Product(NoneToEmpty(GetOrEmpty(item.link)),
                NoneToEmpty(item.price),
                NoneToEmpty(item.currency),
                NoneToEmpty(name0),
                NoneToEmpty(GetOrEmpty(item.displayLink)),
                NoneToEmpty(GetOrEmpty(item.src)),
                AIDict({"snippet", "brand", "rating", "reviews"}))

\* extract_with_gemini lines 339-352, for one item: absent keys are added,
\* values are kept as they are
gemini_record(item) ==
    IF item.link = Missing THEN NoRecord
    ELSE Product(item.link,
                 GetOrEmpty(item.price),
                 GetOrEmpty(item.currency),
                 GetOrEmpty(item.productName),
                 GetOrEmpty(item.source),
                 GetOrEmpty(item.imageUrl),
                 IF item.additionalInfo.kind = "missing" THEN AIDict({})
                 ELSE item.additionalInfo)

\* ---- the candidates each path is run on
Opt(text) == {Missing, None, text}

StructuredProducts ==
    [url : Opt("https://www.amazon.com/dp/B01"),
     pricing : Opt("$199.00"),
     currency : Opt("USD"),
     name : Opt("Garmin Venu"),
     images0 : Opt("https://img.example/1.jpg"),
     product_url : {Missing, None},
     price : {Missing, None},
     title : {Missing, None},
     image : {Missing, None},
     product_information : {AIMissing, AIDict({"brand"})}]

MarkupNodes ==
    [href : {Missing, None, "/dp/B01", "https://www.amazon.com/dp/B01"},
     name : {"", "Garmin Venu", "Casio F91W"},
     price_text : {"", "$199.00"},
     src : {None, "https://img.example/1.jpg"},
     query : {"garmin", ""}]

AIItems ==
    [link : Opt("https://www.amazon.com/dp/B01"),
     price : Opt("199"),
     currency : Opt("USD"),
     productName : Opt("Garmin Venu"),
     imageUrl : Opt("https://img.example/1.jpg"),
     additionalInfo : {AIMissing, AINone, AIDict({}), AIOther}]

Probes == {"200", "404", "error"}
Websites == {"amazon.in", "walmart.com"}

GenericItems ==
    [link : {Missing, None, "", "/dp/B01", "https://www.amazon.in/dp/B01",
             "https://www.Amazon.IN/dp/B02",
             "https://www.amazon.in/s?k=venu", "https://www.walmart.com/ip/1",
             "https://other.example/dp/B01"},
     price : {Missing, None, "", "Rs. 1,999.00"},
     currency : Opt("INR"),
     productName : {Missing, None, "", "Garmin Venu"},
     source : Opt("Amazon"),
     imageUrl : {Missing, "https://img.example/1.jpg"},
     additionalInfo : {AIMissing, AIOther},
     website : Websites,
     probe : Probes]

Hyperlinks ==
    [href : {"https://www.amazon.in/dp/B01", "https://www.amazon.in/help",
             "/amazon.in/dp/B02", "https://www.walmart.com/ip/1",
             "https://other.example/dp/B01"},
     text : {"", "Garmin Venu"},
     title : {Missing, "Venu"},
     website : Websites,
     probe : Probes]

SearchItems ==
    [link : Opt("https://shop.example/venu"),
     displayLink : Opt("shop.example"),
     title : Opt("Garmin Venu - Shop"),
     name : {Missing, "Garmin Venu"},
     ogtitle : {Missing, "Venu"},
     src : Opt("https://img.example/1.jpg"),
     price : {"", "199"},
     currency : {"USD"}]

GeminiItems ==
    [link : Opt("https://shop.example/venu"),
     price : Opt("199"),
     currency : Opt("USD"),
     productName : Opt("Garmin Venu"),
     source : Opt("shop.example"),
     imageUrl : Opt(""),
     additionalInfo : {AIMissing, AIOther}]

Paths == {"amazon_structured", "amazon_markup", "flipkart_markup", "amazon_ai",
          "flipkart_ai", "generic_ai", "harvester", "google", "gemini"}

Candidates(p) ==
    CASE p = "amazon_structured" -> StructuredProducts
      [] p \in {"amazon_markup", "flipkart_markup"} -> MarkupNodes
      [] p \in {"amazon_ai", "flipkart_ai"} -> AIItems
      [] p = "generic_ai" -> GenericItems
      [] p = "harvester" -> Hyperlinks
      [] p = "google" -> SearchItems
      [] p = "gemini" -> GeminiItems

RIdle ==
    /\ rpc = "start"
    /\ path = None
    /\ candidate = None
    /\ rec = NoRecord

Built(r) ==
    /\ rpc' = "built"
    /\ rec' = r
    /\ UNCHANGED <<path, candidate>>
    /\ UNCHANGED <<mvars, pvars, svars, avars, yvars, evars, tvars, gvars,
                   wvars, lvars>>

\* AmazonScraper.search maps one product of the structured endpoint
BuildStructured ==
    /\ rpc = "start" /\ path = "amazon_structured"
    /\ Built(amazon_structured_record(candidate, "US"))

\* AmazonScraper.search / FlipkartScraper.search process one markup node
BuildMarkup ==
    /\ rpc = "start" /\ path \in {"amazon_markup", "flipkart_markup"}
    /\ Built(IF path = "amazon_markup"
             THEN markup_record(candidate, candidate.query, get_domain("US"),
                                "Amazon US", "USD")
             ELSE markup_record(candidate, candidate.query, "flipkart.com",
                                "Flipkart", "INR"))

\* AmazonScraper._extract_with_ai / FlipkartScraper._extract_with_ai
\* process one item of the completion
BuildAI ==
    /\ rpc = "start" /\ path \in {"amazon_ai", "flipkart_ai"}
    /\ Built(IF path = "amazon_ai"
             THEN ai_record(candidate, "www." \o get_domain("US"), Missing)
             ELSE ai_record(candidate, "Flipkart", "INR"))

\* GenericAIScraper._extract_with_ai processes one item of the completion
BuildGenericAI ==
    /\ rpc = "start" /\ path = "generic_ai"
    /\ Built(generic_ai_record(candidate, candidate.website, candidate.probe))

\* GenericAIScraper._extract_with_ai harvests one hyperlink
BuildHarvested ==
    /\ rpc = "start" /\ path = "harvester"
    /\ Built(harvester_record(candidate, candidate.website, candidate.probe))

\* search_products_google maps one search item
BuildGoogle ==
    /\ rpc = "start" /\ path = "google"
    /\ Built(google_record(candidate))

\* extract_with_gemini processes one item of the completion
BuildGemini ==
    /\ rpc = "start" /\ path = "gemini"
    /\ Built(gemini_record(candidate))

(***************************************************************************)
(* One adapter's search(country, query), step by step.  A record is        *)
(* described by the step that created it and its position in that step's   *)
(* output; the external requests are logged in `calls`.                    *)
(***************************************************************************)
\* amazon.py line 80: data['products'][:10]
StructuredCap == 10
\* amazon.py line 190, flipkart.py line 116: len(results) < 3
FewResults == 3

\* generic_ai_scraper.py lines 258 and 298: len(processed_results) >= 5
AICap == 5

\* bounds on what the environment answers
MaxProducts == 11
MaxMarkup == 3
MaxAIItems == 6
MaxSites == 2

AdapterCountries == {"IN", "in", "US"}

NoAnswer == [kind |-> "none"]

\* n records created by step `via`
Tagged(via, n) == [i \in 1..n |-> [via |-> via, n |-> i]]

Min(a, b) == IF a < b THEN a ELSE b

\* What the structured endpoint may answer: requests.get raises, a status
\* other than 200, or 200 with n products of which product number `bad`
\* (0: none) is no mapping, so that prod.get raises.
StructuredAnswers ==
    {[kind |-> "error", n |-> 0, bad |-> 0],
     [kind |-> "status", n |-> 0, bad |-> 0]}
    \cup {[kind |-> "ok", n |-> n, bad |-> bad] :
            n \in 0..MaxProducts, bad \in 0..MaxProducts}

mapped_products_uncapped(answer) ==
    IF answer.kind # "ok" THEN 0
    ELSE IF answer.bad \in 1..answer.n
         THEN answer.bad - 1
         ELSE answer.n

\* lines 83-98: the number of products mapped before the loop ends or raises
mapped_products(answer) ==
    IF answer.kind # "ok" THEN 0
    ELSE IF answer.bad \in 1..Min(answer.n, StructuredCap)
         THEN answer.bad - 1
         ELSE Min(answer.n, StructuredCap)

\* the structured step ran to its end without an exception
structured_succeeded(answer) ==
    /\ answer.kind = "ok"
    /\ answer.bad \notin 1..Min(answer.n, StructuredCap)

\* The parsed completion: a sequence of items, each a mapping that holds
\* the keys the adapter asks for (TRUE) or not (FALSE); or no JSON at all.
AICompletions ==
    {[kind |-> "no_json", items |-> <<>>]}
    \cup {[kind |-> "list", items |-> items] :
            items \in SeqsUpTo(BOOLEAN, MaxAIItems)}

\* AmazonScraper._extract_with_ai lines 258-277 and
\* FlipkartScraper._extract_with_ai lines 147-168: every item that is a
\* mapping with productName and price is appended
extract_with_ai(completion) ==
    IF completion.kind # "list" THEN <<>>
    ELSE Tagged("ai", Len(SelectSeq(completion.items, LAMBDA ok : ok)))

AIdle ==
    /\ apc = "idle"
    /\ adapter = None
    /\ acountry = None
    /\ akeys = [scraper |-> FALSE, ai |-> FALSE]
    /\ structured = NoAnswer
    /\ aresults = <<>>
    /\ markup_n = 0
    /\ ai_items = NoAnswer
    /\ ai_returned = <<>>
    /\ ai_processed = 0
    /\ sites = 0
    /\ calls = <<>>
    /\ areturned = NoAnswer
    /\ aborted = FALSE

\* `return value` of search
ReturnFromSearch(value) ==
    /\ apc' = "done"
    /\ areturned' = ListOf(value)

\* AmazonScraper.search lines 57-63: with a provider key the structured
\* endpoint comes first
AmazonSearch(c, scraper_key, ai_key) ==
    /\ apc = "idle"
    /\ adapter' = "amazon"
    /\ acountry' = c
    /\ akeys' = [scraper |-> scraper_key, ai |-> ai_key]
    /\ apc' = IF scraper_key THEN "structured" ELSE "fetch"
    /\ UNCHANGED <<structured, aresults, markup_n, ai_items, ai_returned,
                   ai_processed, sites, calls, areturned, aborted>>
    /\ UNCHANGED <<mvars, pvars, rvars, svars, yvars, evars, tvars, gvars,
                   wvars, lvars>>

\* AmazonScraper.search lines 64-102: the structured step
AmazonStructured ==
    /\ apc = "structured" /\ adapter = "amazon"
    /\ calls' = Append(calls, "structured_api")
    /\ \E answer \in StructuredAnswers :
           /\ structured' = answer
           /\ aresults' = Tagged("structured", mapped_products(answer))
           /\ IF structured_succeeded(answer) /\ aresults' # <<>>
              THEN ReturnFromSearch(aresults')
              ELSE apc' = "fetch" /\ UNCHANGED areturned
    /\ UNCHANGED <<adapter, acountry, akeys, markup_n, ai_items, ai_returned,
                   ai_processed, sites, aborted>>
    /\ UNCHANGED <<mvars, pvars, rvars, svars, yvars, evars, tvars, gvars,
                   wvars, lvars>>

flipkart_serves_any(c) == TRUE

\* flipkart.py line 39: country.upper() != "IN" is the test for skipping
flipkart_serves(c) == Upper(c) = "IN"

\* FlipkartScraper.search lines 37-41: any country but IN returns at once
FlipkartSearch(c, ai_key) ==
    /\ apc = "idle"
    /\ adapter' = "flipkart"
    /\ acountry' = c
    /\ akeys' = [scraper |-> FALSE, ai |-> ai_key]
    /\ IF ~flipkart_serves(c)
       THEN ReturnFromSearch(<<>>)
       ELSE apc' = "fetch" /\ UNCHANGED areturned
    /\ UNCHANGED <<structured, aresults, markup_n, ai_items, ai_returned,
                   ai_processed, sites, calls, aborted>>
    /\ UNCHANGED <<mvars, pvars, rvars, svars, yvars, evars, tvars, gvars,
                   wvars, lvars>>

\* amazon.py lines 104-109, flipkart.py lines 44-52: fetch the results
\* page; an empty page ends the search with []
FetchPage ==
    /\ apc = "fetch" /\ adapter \in {"amazon", "flipkart"}
    /\ calls' = Append(calls, "page_fetch")
    /\ \E html_content \in {"", "page"} :
           IF html_content = ""
           THEN ReturnFromSearch(<<>>)
           ELSE apc' = "markup" /\ UNCHANGED areturned
    /\ UNCHANGED <<adapter, acountry, akeys, structured, aresults, markup_n,
                   ai_items, ai_returned, ai_processed, sites, aborted>>
    /\ UNCHANGED <<mvars, pvars, rvars, svars, yvars, evars, tvars, gvars,
                   wvars, lvars>>

\* amazon.py lines 111-187, flipkart.py lines 54-113: parse the page and
\* run the markup loop; m candidates survive matching
ScrapeMarkup ==
    /\ apc = "markup"
    /\ \E m \in 0..MaxMarkup :
           /\ markup_n' = m
           /\ aresults' = aresults \o Tagged("markup", m)
    /\ apc' = "fallback"
    /\ UNCHANGED <<adapter, acountry, akeys, structured, ai_items, ai_returned,
                   ai_processed, sites, calls, areturned, aborted>>
    /\ UNCHANGED <<mvars, pvars, rvars, svars, yvars, evars, tvars, gvars,
                   wvars, lvars>>

\* parsing raises: the outer handler (amazon.py lines 200-202, flipkart.py
\* lines 126-128) returns `results` as it is
MarkupRaises ==
    /\ apc = "markup"
    /\ aborted' = TRUE
    /\ ReturnFromSearch(aresults)
    /\ UNCHANGED <<adapter, acountry, akeys, structured, aresults, markup_n,
                   ai_items, ai_returned, ai_processed, sites, calls>>
    /\ UNCHANGED <<mvars, pvars, rvars, svars, yvars, evars, tvars, gvars,
                   wvars, lvars>>

\* amazon.py lines 189-198, flipkart.py lines 115-124: the AI-assisted
\* fallback, and the return of the list
AIFallback ==
    /\ apc = "fallback"
    /\ IF Len(aresults) < FewResults /\ akeys.ai
       THEN /\ calls' = Append(calls, "ai_completion")
            /\ \E completion \in AICompletions :
                   /\ ai_items' = completion
                   /\ ai_returned' = extract_with_ai(completion)
                   /\ ai_processed' = Len(completion.items)
                   /\ aresults' = aresults \o ai_returned'
       ELSE UNCHANGED <<calls, ai_items, ai_returned, ai_processed, aresults>>
    /\ ReturnFromSearch(aresults')
    /\ UNCHANGED <<adapter, acountry, akeys, structured, markup_n, sites,
                   aborted>>
    /\ UNCHANGED <<mvars, pvars, rvars, svars, yvars, evars, tvars, gvars,
                   wvars, lvars>>

\* ---- GenericAIScraper
\* how many of the first k items pass every check
accepted_among(items, k) ==
    Cardinality({i \in 1..k : items[i]})

\* generic_ai_scraper.py lines 209-259: the loop stops with the item that
\* brings the accepted records to the cap
processed_by_generic(items) ==
    IF accepted_among(items, Len(items)) < AICap THEN Len(items)
    ELSE CHOOSE k \in 1..Len(items) :
             /\ items[k]
             /\ accepted_among(items, k) = AICap

\* GenericAIScraper._extract_with_ai lines 200-307 with a key and a page:
\* no JSON gives [], accepted items are kept up to the cap, and with none
\* accepted the hyperlinks of the page are harvested up to the cap
generic_extract(completion, harvested) ==
    IF completion.kind # "list" THEN <<>>
    ELSE LET accepted == accepted_among(completion.items,
                                        Len(completion.items))
         IN  IF accepted > 0 THEN Tagged("ai", Min(accepted, AICap))
             ELSE Tagged("harvest", Min(harvested, AICap))

\* lines 260-266: the hyperlinks of the page are looked at only when the
\* completion is a list from which no item was accepted
harvest_counts(completion) ==
    IF /\ completion.kind = "list"
       /\ accepted_among(completion.items, Len(completion.items)) = 0
    THEN 0..MaxAIItems
    ELSE {0}

\* GenericAIScraper.search lines 123-135: n websites are to be searched
GenericSearch(c, ai_key, n) ==
    /\ apc = "idle"
    /\ adapter' = "generic_ai"
    /\ acountry' = c
    /\ akeys' = [scraper |-> FALSE, ai |-> ai_key]
    /\ sites' = n
    /\ apc' = "websites"
    /\ UNCHANGED <<structured, aresults, markup_n, ai_items, ai_returned,
                   ai_processed, calls, areturned, aborted>>
    /\ UNCHANGED <<mvars, pvars, rvars, svars, yvars, evars, tvars, gvars,
                   wvars, lvars>>

\* GenericAIScraper._search_website lines 155-185 for the next website: an
\* empty page gives [] (first case), otherwise _extract_with_ai answers
\* (lines 187-189: [] without a key)
SearchWebsite ==
    /\ apc = "websites" /\ sites > 0
    /\ sites' = sites - 1
    /\ \/ /\ calls' = Append(calls, "page_fetch")
          /\ UNCHANGED <<ai_items, ai_returned, ai_processed, aresults>>
       \/ /\ ~akeys.ai
          /\ calls' = Append(calls, "page_fetch")
          /\ ai_items' = NoAnswer
          /\ ai_returned' = <<>>
          /\ ai_processed' = 0
          /\ UNCHANGED aresults
       \/ /\ akeys.ai
          /\ calls' = calls \o <<"page_fetch", "ai_completion">>
          /\ \E completion \in AICompletions :
             \E harvested \in harvest_counts(completion) :
                 /\ ai_items' = completion
                 /\ ai_returned' = generic_extract(completion, harvested)
                 /\ ai_processed' = processed_by_generic(completion.items)
                 /\ aresults' = aresults \o ai_returned'
    /\ UNCHANGED <<apc, adapter, acountry, akeys, structured, markup_n,
                   areturned, aborted>>
    /\ UNCHANGED <<mvars, pvars, rvars, svars, yvars, evars, tvars, gvars,
                   wvars, lvars>>

\* lines 141-149: the lists of the websites, concatenated, are returned
GenericReturn ==
    /\ apc = "websites" /\ sites = 0 /\ adapter = "generic_ai"
    /\ ReturnFromSearch(aresults)
    /\ UNCHANGED <<adapter, acountry, akeys, structured, aresults, markup_n,
                   ai_items, ai_returned, ai_processed, sites, calls, aborted>>
    /\ UNCHANGED <<mvars, pvars, rvars, svars, yvars, evars, tvars, gvars,
                   wvars, lvars>>

\* lines 151-153: an exception in search returns []
GenericRaises ==
    /\ apc = "websites" /\ adapter = "generic_ai"
    /\ aborted' = TRUE
    /\ ReturnFromSearch(<<>>)
    /\ UNCHANGED <<adapter, acountry, akeys, structured, aresults, markup_n,
                   ai_items, ai_returned, ai_processed, sites, calls>>
    /\ UNCHANGED <<mvars, pvars, rvars, svars, yvars, evars, tvars, gvars,
                   wvars, lvars>>

\* ---- GoogleCustomSearchScraper
google_scraper_search_propagates(found) == found

\* scraper_manager.py lines 103-108: what search_products_google raises is
\* caught and [] is returned
google_scraper_search(found) ==
    IF found = Raise THEN ListOf(<<>>) ELSE found

\* scraper_manager.py lines 103-108 and google_custom_search.py lines
\* 138-142: without the key or the engine id search_products_google raises
\* ValueError, which the adapter turns into []
GoogleSearch(c, configured, ai_key) ==
    /\ apc = "idle"
    /\ adapter' = "google_custom_search"
    /\ acountry' = c
    /\ akeys' = [scraper |-> configured, ai |-> ai_key]
    /\ IF ~configured
       THEN /\ aborted' = TRUE
            /\ apc' = "done"
            /\ areturned' = google_scraper_search(Raise)
       ELSE apc' = "query" /\ UNCHANGED <<areturned, aborted>>
    /\ UNCHANGED <<structured, aresults, markup_n, ai_items, ai_returned,
                   ai_processed, sites, calls>>
    /\ UNCHANGED <<mvars, pvars, rvars, svars, yvars, evars, tvars, gvars,
                   wvars, lvars>>

\* google_custom_search.py lines 160-281: the query fails (lines 162-165,
\* 277-278) with nothing collected, or answers n items of which `built`
\* become records, `priced` of them with a price; with fewer than 3 priced
\* records, an AI key and at least one item, the records extract_with_gemini
\* returns whose links are new, `fresh` of them, are added
GoogleQuery ==
    /\ apc = "query" /\ adapter = "google_custom_search"
    /\ calls' = Append(calls, "search_api")
    /\ \/ /\ aborted' = TRUE
          /\ ReturnFromSearch(<<>>)
          /\ UNCHANGED <<aresults, markup_n>>
       \/ \E n \in 0..MaxMarkup :
          \E built \in 0..n :
          \E priced \in 0..built :
          \E fresh \in 0..MaxAIItems :
              /\ markup_n' = built
              /\ aresults' =
                     Tagged("google", built)
                     \o (IF priced < FewResults /\ akeys.ai /\ n > 0
                         THEN Tagged("gemini", fresh) ELSE <<>>)
              /\ ReturnFromSearch(aresults')
              /\ UNCHANGED aborted
    /\ UNCHANGED <<adapter, acountry, akeys, structured, ai_items, ai_returned,
                   ai_processed, sites>>
    /\ UNCHANGED <<mvars, pvars, rvars, svars, yvars, evars, tvars, gvars,
                   wvars, lvars>>

\* routes.py lines 69-72 and 93-95 on google_custom_search.py lines 138-142:
\* the /search handler calls search_products_google itself; without the
\* key or the engine id the ValueError is raised before the request of
\* line 160 and the handler answers HTTP 500
HandlerSearchUnconfigured(c, ai_key) ==
    /\ apc = "idle" /\ spc = "start"
    /\ adapter' = "search_handler"
    /\ acountry' = c
    /\ akeys' = [scraper |-> FALSE, ai |-> ai_key]
    /\ aborted' = TRUE
    /\ apc' = "done"
    /\ areturned' = Raise
    /\ \E text \in SearchErrors : response' = error_response(text)
    /\ spc' = "search_failed"
    /\ UNCHANGED <<structured, aresults, markup_n, ai_items, ai_returned,
                   ai_processed, sites, calls>>
    /\ UNCHANGED <<query, results, estimated, faulted, sorted_results>>
    /\ UNCHANGED <<mvars, pvars, rvars, yvars, evars, tvars, gvars, wvars,
                   lvars>>

(***************************************************************************)
(* GenericAIScraper._extract_with_ai on one fetched page, with an AI key:  *)
(* the AI stage and the link harvester (generic_ai_scraper.py lines        *)
(* 187-307).                                                               *)
(***************************************************************************)
\* bound on the hyperlinks of a page
MaxLinks == 2

\* What the completion may be: the empty text or a text that is no JSON
\* (json.loads raises), JSON that is no array, or an array whose items pass
\* the checks of lines 210-256 (TRUE) or not
ExtractCompletions ==
    {[kind |-> "empty", items |-> <<>>],
     [kind |-> "no_json", items |-> <<>>],
     [kind |-> "not_list", items |-> <<>>]}
    \cup {[kind |-> "list", items |-> items] :
            items \in {<<>>, <<FALSE>>, <<FALSE, FALSE>>, <<TRUE>>,
                       <<FALSE, TRUE>>}}

\* soup.find_all("a", href=True)
PageLinks ==
    [href : {"https://www.amazon.in/dp/B01", "/amazon.in/dp/B02",
             "amazon.in/dp/B02", "https://www.amazon.in/help",
             "https://other.example/dp/B01"},
     text : {"", "Garmin Venu"},
     title : {Missing},
     probe : {"200", "404"}]

\* a page with one more product link than the cap
LongPage ==
    [k \in 1..(AICap + 1) |->
        [href |-> "https://www.amazon.in/dp/B0" \o SubSeq("123456789", k, k),
         text |-> "Garmin Venu", title |-> Missing, probe |-> "200"]]

Pages == SeqsUpTo(PageLinks, MaxLinks) \cup {LongPage}

RECURSIVE harvest(_, _, _, _)
\* lines 264-299: the loop over the hyperlinks; an href seen before is
\* skipped, an accepted link is appended, and the loop ends at the cap
harvest(page, website, seen, found) ==
    IF page = <<>> \/ Len(found) >= AICap THEN found
    ELSE LET a == Head(page)
             r == harvester_record(a, website, a.probe)
         IN  IF ~Contains(a.href, website) \/ a.href \in seen
             THEN harvest(Tail(page), website, seen, found)
             ELSE harvest(Tail(page), website, seen \cup {a.href},
                          IF r = NoRecord THEN found ELSE Append(found, r))

\* lines 199-304: json.loads raising returns [] at once (lines 302-304);
\* otherwise the accepted items, and with none the harvested links
extract_page(completion, page, website) ==
    IF completion.kind \in {"empty", "no_json"}
    THEN [harvested |-> FALSE, items |-> <<>>]
    ELSE LET accepted == accepted_among(completion.items,
                                        Len(completion.items))
         IN  IF accepted > 0
             THEN [harvested |-> FALSE,
                   items |-> Tagged("ai", Min(accepted, AICap))]
             ELSE [harvested |-> TRUE,
                   items |-> harvest(page, website, {}, <<>>)]

EIdle ==
    /\ epc = "start"
    /\ ewebsite = None
    /\ ecompletion = NoAnswer
    /\ epage = <<>>
    /\ eharvested = FALSE
    /\ ereturned = NoAnswer

\* one call of _extract_with_ai
ExtractFromPage ==
    /\ epc = "start"
    /\ LET answer == extract_page(ecompletion, epage, ewebsite)
       IN  /\ eharvested' = answer.harvested
           /\ ereturned' = ListOf(answer.items)
    /\ epc' = "returned"
    /\ UNCHANGED <<ewebsite, ecompletion, epage>>
    /\ UNCHANGED <<mvars, pvars, rvars, svars, avars, yvars, tvars, gvars,
                   wvars, lvars>>

(***************************************************************************)
(* is_likely_year_not_price (google_custom_search.py).  re.search with     *)
(* re.IGNORECASE is modelled on the lower-cased text; \s is the space, and *)
(* the registered sign of line 81 is written (R).                          *)
(***************************************************************************)
\* lines 74 and 97: the range of years and the founding years
FirstYear == 1800
LastYear == 2030
FoundingYears == {1755, 1848, 1926, 1884, 1875, 1905}

AllSpaces(s) == \A i \in 1..Len(s) : IsSpace(CharAt(s, i))

\* re.search(before \s{min_spaces,} after, text)
SearchSpaced(text, before, min_spaces, after) ==
    \E i \in 1..(Len(text) + 1), j \in 1..(Len(text) + 1) :
        /\ i + Len(before) + min_spaces <= j
        /\ j + Len(after) - 1 <= Len(text)
        /\ SubSeq(text, i, i + Len(before) - 1) = before
        /\ AllSpaces(SubSeq(text, i + Len(before), j - 1))
        /\ SubSeq(text, j, j + Len(after) - 1) = after

\* lines 76-94: one of the year patterns is found in the text
year_pattern_found(price_str, text) ==
    \E p \in {price_str}, t \in {Lower(text)} :
        \/ SearchSpaced(t, "since", 0, p)
        \/ SearchSpaced(t, "est", 0, p)
        \/ SearchSpaced(t, "est.", 0, p)
        \/ SearchSpaced(t, "established", 0, p)
        \/ SearchSpaced(t, "founded", 0, p)
        \/ SearchSpaced(t, p, 0, "(r)")
        \/ Contains(t, "watches since " \o p)
        \/ SearchSpaced(t, "since", 1, p)
        \/ SearchSpaced(t, "in", 1, p)
        \/ SearchSpaced(t, "from", 1, p)
        \/ SearchSpaced(t, p, 1, "edition")
        \/ SearchSpaced(t, p, 1, "collection")

is_likely_year_not_price(price_str, text) ==
    \E p \in {price_str} :
        /\ p # "" /\ AllDigits(p)
        /\ \E price_num \in {DigitsValue(p)} :
               /\ FirstYear <= price_num /\ price_num <= LastYear
               /\ \/ year_pattern_found(p, text)
                  \/ /\ price_num \in FoundingYears
                     /\ \E t \in {Lower(text)} : Contains(t, "watch")

\* ---- inputs
YearCandidates ==
    {"", "399", "1926", "01926", "1799", "1800", "2030", "2031", "1848",
     "1950", "19.26", "abc", "19265", "926"}

YearTexts ==
    {"", "Watches since 1926", "WATCHES SINCE 1926", "Apple Watch 399",
     "since1926", "Est. 1848", "est 1848", "Established 1950",
     "founded  1950", "Tudor 1926 (R)", "1950 Edition", "1950 collection",
     "made in 1950", "from 1950", "in1950", "price 1950", "Omega watch",
     "Omega Seamaster", "since 01926", "since 19265", "since 2031",
     "since 1799", "since 1800", "from 2030", "Apple Watch 1950",
     "watches 1848"}

YIdle ==
    /\ ypc = "start"
    /\ ycandidate = None
    /\ ytext = None
    /\ yresult = FALSE

\* one call of is_likely_year_not_price
CheckYear ==
    /\ ypc = "start"
    /\ ypc' = "checked"
    /\ yresult' = is_likely_year_not_price(ycandidate, ytext)
    /\ UNCHANGED <<ycandidate, ytext>>
    /\ UNCHANGED <<mvars, pvars, rvars, svars, avars, evars, tvars, gvars,
                   wvars, lvars>>

(***************************************************************************)
(* utils/google_custom_search.py: PRICE_PATTERNS, CURRENCY_MAP and         *)
(* extract_price_from_text.  A pattern is a sequence of alternatives, an   *)
(* alternative a sequence of elements, an element a character class with a *)
(* repetition.  Matching is Python's: leftmost start, alternatives in      *)
(* order, greedy repetition with backtracking, letters in either case      *)
(* (re.IGNORECASE).  Of the currency symbols the model texts use "$".      *)
(***************************************************************************)
CurrencySymbols == {"$"}
Spaces == {" "}
AmountChars == Digits \cup {","}

ReOne(chars) == [chars |-> chars, neg |-> FALSE, min |-> 1, many |-> FALSE]
ReMaybe(chars) == [chars |-> chars, neg |-> FALSE, min |-> 0, many |-> FALSE]
ReStar(chars) == [chars |-> chars, neg |-> FALSE, min |-> 0, many |-> TRUE]
RePlus(chars) == [chars |-> chars, neg |-> FALSE, min |-> 1, many |-> TRUE]
ReStarNot(chars) == [chars |-> chars, neg |-> TRUE, min |-> 0, many |-> TRUE]

\* a literal word under re.IGNORECASE
ReWord(word) ==
    [i \in 1..Len(word) |->
        ReOne({LowerChar(CharAt(word, i)), UpperChar(CharAt(word, i))})]

\* [\d,]+\.?\d*
ReAmount == <<RePlus(AmountChars), ReMaybe({"."}), ReStar(Digits)>>

InClass(e, c) == (c \in e.chars) # e.neg

RECURSIVE RunLength(_, _, _)
\* how many characters from pos on the element can take at most
RunLength(e, text, pos) ==
    IF pos > Len(text) \/ ~InClass(e, CharAt(text, pos)) THEN 0
    ELSE IF e.many THEN 1 + RunLength(e, text, pos + 1)
    ELSE 1

RECURSIVE MatchSeq(_, _, _, _)
RECURSIVE TryCount(_, _, _, _, _)
\* the position after the match of elements k.. of `re` at pos, 0: no match
MatchSeq(re, k, text, pos) ==
    IF k > Len(re) THEN pos
    ELSE Once(RunLength(re[k], text, pos),
              LAMBDA n : TryCount(re, k, text, pos, n))

\* greedy: the longest repetition first, then shorter ones
TryCount(re, k, text, pos, n) ==
    IF n < re[k].min THEN 0
    ELSE LET rest == MatchSeq(re, k + 1, text, pos + n)
         IN  IF rest # 0 THEN rest
             ELSE TryCount(re, k, text, pos, n - 1)

\* the alternatives of a pattern at one position, in order
MatchAt(pattern, text, pos) ==
    IF \E a \in 1..Len(pattern) : MatchSeq(pattern[a], 1, text, pos) # 0
    THEN LET a == CHOOSE b \in 1..Len(pattern) :
                      /\ MatchSeq(pattern[b], 1, text, pos) # 0
                      /\ \A c \in 1..(b - 1) :
                            MatchSeq(pattern[c], 1, text, pos) = 0
         IN  MatchSeq(pattern[a], 1, text, pos)
    ELSE 0

Matches(pattern, text) ==
    \E pos \in 1..Len(text) : MatchAt(pattern, text, pos) # 0

\* re.findall(pattern, text, re.IGNORECASE)[0]
FirstMatch(pattern, text) ==
    LET pos == CHOOSE p \in 1..Len(text) :
                   /\ MatchAt(pattern, text, p) # 0
                   /\ \A q \in 1..(p - 1) : MatchAt(pattern, text, q) = 0
    IN  SubSeq(text, pos, MatchAt(pattern, text, pos) - 1)

\* lines 23-35, in the order of the list
PRICE_PATTERNS ==
    << \* [$]\s*[\d,]+\.?\d*
       << <<ReOne(CurrencySymbols), ReStar(Spaces)>> \o ReAmount >>,
       \* [\d,]+\.?\d*\s*[$]
       << ReAmount \o <<ReStar(Spaces), ReOne(CurrencySymbols)>> >>,
       \* [\d,]+\.?\d*\s*USD|EUR|GBP|JPY|INR
       << ReAmount \o <<ReStar(Spaces)>> \o ReWord("usd"),
          ReWord("eur"), ReWord("gbp"), ReWord("jpy"), ReWord("inr") >>,
       \* price[^\d]*[$]?\s*[\d,]+\.?\d*
       << ReWord("price")
          \o <<ReStarNot(Digits), ReMaybe(CurrencySymbols), ReStar(Spaces)>>
          \o ReAmount >>,
       \* price[^\d]*[\d,]+\.?\d*\s*[$]?
       << ReWord("price") \o <<ReStarNot(Digits)>> \o ReAmount
          \o <<ReStar(Spaces), ReMaybe(CurrencySymbols)>> >>,
       \* [$]?[^\d]*[\d,]+\.?\d*
       << <<ReMaybe(CurrencySymbols), ReStarNot(Digits)>> \o ReAmount >>,
       \* cost[^\d]*[$]?\s*[\d,]+\.?\d*
       << ReWord("cost")
          \o <<ReStarNot(Digits), ReMaybe(CurrencySymbols), ReStar(Spaces)>>
          \o ReAmount >>,
       \* [\d,]+\.?\d*\s*dollars|rupees|euros|pounds
       << ReAmount \o <<ReStar(Spaces)>> \o ReWord("dollars"),
          ReWord("rupees"), ReWord("euros"), ReWord("pounds") >>,
       \* starting at\s*[$]?\s*[\d,]+\.?\d*
       << ReWord("starting at")
          \o <<ReStar(Spaces), ReMaybe(CurrencySymbols), ReStar(Spaces)>>
          \o ReAmount >>,
       \* from\s*[$]?\s*[\d,]+\.?\d*
       << ReWord("from")
          \o <<ReStar(Spaces), ReMaybe(CurrencySymbols), ReStar(Spaces)>>
          \o ReAmount >> >>

\* lines 37-48 in insertion order: the keys the model texts can hold
CURRENCY_MAP ==
    << <<"$", "USD">>, <<"USD", "USD">>, <<"EUR", "EUR">>, <<"GBP", "GBP">>,
       <<"JPY", "JPY">>, <<"INR", "INR">> >>

\* lines 114-118: the code of the first key contained in price_str
currency_of(price_str) ==
    IF \E i \in 1..Len(CURRENCY_MAP) : Contains(price_str, CURRENCY_MAP[i][1])
    THEN CURRENCY_MAP[CHOOSE i \in 1..Len(CURRENCY_MAP) :
             /\ Contains(price_str, CURRENCY_MAP[i][1])
             /\ \A j \in 1..(i - 1) :
                    ~Contains(price_str, CURRENCY_MAP[j][1])][2]
    ELSE ""

RECURSIVE rstrip_marks(_)
\* price.rstrip('.,')
rstrip_marks(s) ==
    IF Len(s) > 0 /\ CharAt(s, Len(s)) \in {".", ","}
    THEN rstrip_marks(SubSeq(s, 1, Len(s) - 1))
    ELSE s

\* lines 120-123: re.sub(r'[^\d.,]', '', price_str).rstrip('.,')
cleaned_amount(price_str) == rstrip_marks(KeepChars(price_str, KeptChars))

\* lines 113-132 for the first match of one pattern: the pair returned, or
\* NoAnswer when the loop goes on to the next pattern
yield_of(price_str, text) ==
    IF cleaned_amount(price_str) = "" THEN NoAnswer
    ELSE IF is_likely_year_not_price(cleaned_amount(price_str), text)
    THEN NoAnswer
    ELSE [price |-> cleaned_amount(price_str),
          currency |-> currency_of(price_str)]

\* lines 110-132 for one pattern
pattern_yield(k, text) ==
    IF ~Matches(PRICE_PATTERNS[k], text) THEN NoAnswer
    ELSE Once(FirstMatch(PRICE_PATTERNS[k], text),
              LAMBDA price_str : yield_of(price_str, text))

NoPrice == [price |-> "", currency |-> ""]

RECURSIVE patterns_from(_, _)
\* the loop of lines 109-132 from pattern k on, and line 134
patterns_from(k, text) ==
    IF k > Len(PRICE_PATTERNS) THEN NoPrice
    ELSE Once(pattern_yield(k, text),
              LAMBDA found : IF found # NoAnswer THEN found
                             ELSE patterns_from(k + 1, text))

\* lines 104-134
extract_price_from_text(text) ==
    IF text = "" THEN NoPrice ELSE patterns_from(1, text)

\* the texts searched: a lead, an amount phrase and a tail
TextLeads == {"", "Model 5 ", "Garmin "}
TextPhrases ==
    {"", "$1,234.56", "$ 7", "45$", "45 USD", "45 usd", "EUR", "price: 99",
     "Price 99$", "price $ 12.50", "cost 45", "cost: $45", "45 dollars",
     "rupees", "starting at $20", "starting at 30", "from 30", "from $ 8",
     "since 1926", "1926", "99", "12.", ",", "watch", "1,299.", "INR 500"}
TextTails == {"", " only", " est. 1926"}
PriceTexts ==
    {lead \o phrase \o tail :
        lead \in TextLeads, phrase \in TextPhrases, tail \in TextTails}

TIdle ==
    /\ tpc = "start"
    /\ ttext = None
    /\ tprice = None
    /\ tcurrency = None

\* one call of extract_price_from_text
ExtractPrice ==
    /\ tpc = "start"
    /\ tpc' = "extracted"
    /\ tprice' = extract_price_from_text(ttext).price
    /\ tcurrency' = extract_price_from_text(ttext).currency
    /\ UNCHANGED ttext
    /\ UNCHANGED <<mvars, pvars, rvars, svars, avars, yvars, evars, gvars,
                   wvars, lvars>>

(***************************************************************************)
(* utils/google_custom_search.py: search_products_google, the price and    *)
(* currency of one item of the answer (lines 172-222).                     *)
(***************************************************************************)
\* [Ss]ince\s+(\d{4}), letters in the case written
SincePattern ==
    << <<ReOne({"S", "s"}), ReOne({"i"}), ReOne({"n"}), ReOne({"c"}),
         ReOne({"e"}), RePlus(Spaces), ReOne(Digits), ReOne(Digits),
         ReOne(Digits), ReOne(Digits)>> >>

\* group(1) of re.search(r'[Ss]ince\s+(\d{4})', text)
since_year(text) ==
    LET found == FirstMatch(SincePattern, text)
    IN  SubSeq(found, Len(found) - 3, Len(found))

\* lines 145 and 214: the default currency of the requested country
default_currency == "USD"

\* lines 183-211: no structured price, the texts of the item are searched
text_price(item, currency) ==
    LET title == GetOrEmpty(item.title)
        snippet == GetOrEmpty(item.snippet)
        desc == GetOrEmpty(item.description)
        full_text == title \o " " \o snippet \o " " \o desc
        \* lines 202-211 on the three extractions
        chosen(from_title, from_snippet, from_desc) ==
            LET title_price ==
                    IF from_title.price # ""
                       /\ is_likely_year_not_price(from_title.price, full_text)
                    THEN "" ELSE from_title.price
                snippet_price ==
                    IF from_snippet.price # ""
                       /\ is_likely_year_not_price(from_snippet.price,
                                                   full_text)
                    THEN "" ELSE from_snippet.price
            IN  [price |->
                     IF title_price # "" THEN title_price
                     ELSE IF snippet_price # "" THEN snippet_price
                     ELSE from_desc.price,
                 currency |->
                     IF from_title.currency # "" THEN from_title.currency
                     ELSE IF from_snippet.currency # ""
                     THEN from_snippet.currency
                     ELSE IF from_desc.currency # ""
                     THEN from_desc.currency
                     ELSE default_currency]
    IN  IF Matches(SincePattern, full_text)
        THEN [price |-> "", currency |-> currency]
        ELSE CHOOSE r \in
                 {chosen(from_title, from_snippet, from_desc) :
                     from_title \in {extract_price_from_text(title)},
                     from_snippet \in {extract_price_from_text(snippet)},
                     from_desc \in {extract_price_from_text(desc)}} : TRUE

\* lines 217-222: a price equal to the year of "Since XXXX" in title+snippet
since_special_case(price, item) ==
    LET both == GetOrEmpty(item.title) \o GetOrEmpty(item.snippet)
    IN  IF /\ price # ""
           /\ Contains(Lower(both), "since")
           /\ Matches(SincePattern, both)
           /\ price = since_year(both)
        THEN ""
        ELSE price

\* lines 178-211: the structured price, or else the price of the texts
item_found(item) ==
    IF FirstTruthy(item.offer_price, item.product_price) = ""
    THEN text_price(item, FirstTruthy(item.pricecurrency, Missing))
    ELSE [price |-> FirstTruthy(item.offer_price, item.product_price),
          currency |-> FirstTruthy(item.pricecurrency, Missing)]

\* lines 178-222
item_price(item) ==
    Once(item_found(item),
         LAMBDA found :
             [price |-> Once(found.price,
                             LAMBDA price : since_special_case(price, item)),
              currency |-> IF found.currency = "" THEN default_currency
                           ELSE found.currency])

\* ---- the items priced
PricedItems ==
    [offer_price : {Missing, "1926", "199"},
     product_price : {Missing, "1926"},
     pricecurrency : {Missing, "EUR"},
     title : {"Garmin Venu", "Tudor Black Bay Established 1926",
              "Tudor Since 1926", "Garmin Venu $199"},
     snippet : {Missing, "Watches since1926", "Made in 1926", "from $249"},
     description : {Missing, "Founded 1926", "only 1926"}]

GIdle ==
    /\ gpc = "start"
    /\ gitem = None
    /\ gprice = None
    /\ gcurrency = None

\* the loop body of lines 170-222 on one item
PriceItem ==
    /\ gpc = "start"
    /\ gpc' = "priced"
    /\ \E priced \in {item_price(gitem)} :
           /\ gprice' = priced.price
           /\ gcurrency' = priced.currency
    /\ UNCHANGED gitem
    /\ UNCHANGED <<mvars, pvars, rvars, svars, avars, yvars, evars, tvars,
                   wvars, lvars>>

(***************************************************************************)
(* GenericAIScraper.get_websites_for_country under concurrent calls.  The  *)
(* calls are coroutines of one event loop: a call runs without             *)
(* interruption from one await to the next, and the only await is the AI   *)
(* request of line 110.  ECOMMERCE_SITES is a class attribute, assigned    *)
(* through self at line 115, so every instance shares it.                  *)
(***************************************************************************)
\* bound on the number of concurrent calls
MaxCalls == 3
Callers == 1..MaxCalls

\* lines 21-67: the static table (the first sites of two of its entries)
StaticSites ==
    [c \in {"US", "IN"} |->
        IF c = "US" THEN <<"amazon.com", "walmart.com">>
        ELSE <<"amazon.in", "flipkart.com">>]

RequestedCountries == {"us", "in", "br"}
CountryCodes == {Upper(c) : c \in RequestedCountries}

\* line 111: the site lists parsed from the answers of the AI collaborator;
\* <<>> for an empty answer, which is also what a failed request gives
SiteAnswers ==
    {<<>>, <<"mercadolivre.com.br">>, <<"americanas.com.br", "magalu.com">>}

\* line 121
fallback_sites ==
    IF "US" \in DOMAIN ECOMMERCE_SITES THEN ECOMMERCE_SITES["US"]
    ELSE <<"amazon.com", "ebay.com", "walmart.com">>

WIdle ==
    /\ wkey = FALSE
    /\ ECOMMERCE_SITES = StaticSites
    /\ wpc = <<>>
    /\ wcountry = <<>>
    /\ wreturned = <<>>
    /\ whit = <<>>
    /\ wwrites = <<>>
    /\ wai_calls = <<>>

WReturn(p, site_list) ==
    /\ wpc' = [wpc EXCEPT ![p] = "returned"]
    /\ wreturned' = [wreturned EXCEPT ![p] = ListOf(site_list)]

\* lines 99-103: the entry is there and is returned
CachedCall(p, c) ==
    /\ wpc[p] = "idle"
    /\ Upper(c) \in DOMAIN ECOMMERCE_SITES
    /\ wcountry' = [wcountry EXCEPT ![p] = Upper(c)]
    /\ whit' = [whit EXCEPT ![p] = TRUE]
    /\ WReturn(p, ECOMMERCE_SITES[Upper(c)])
    /\ UNCHANGED <<wkey, ECOMMERCE_SITES, wwrites, wai_calls>>
    /\ UNCHANGED <<mvars, pvars, rvars, svars, avars, yvars, evars, tvars,
                   gvars, lvars>>

\* lines 99-110: no entry, the AI request is issued and the call suspends
AskAI(p, c) ==
    /\ wpc[p] = "idle"
    /\ Upper(c) \notin DOMAIN ECOMMERCE_SITES
    /\ wkey
    /\ wcountry' = [wcountry EXCEPT ![p] = Upper(c)]
    /\ wpc' = [wpc EXCEPT ![p] = "awaiting"]
    /\ wai_calls' = [wai_calls EXCEPT ![Upper(c)] = @ + 1]
    /\ UNCHANGED <<wkey, ECOMMERCE_SITES, wreturned, whit, wwrites>>
    /\ UNCHANGED <<mvars, pvars, rvars, svars, avars, yvars, evars, tvars,
                   gvars, lvars>>

\* lines 99-106 and 121: no entry and no AI key
FallbackCall(p, c) ==
    /\ wpc[p] = "idle"
    /\ Upper(c) \notin DOMAIN ECOMMERCE_SITES
    /\ ~wkey
    /\ wcountry' = [wcountry EXCEPT ![p] = Upper(c)]
    /\ WReturn(p, fallback_sites)
    /\ UNCHANGED <<wkey, ECOMMERCE_SITES, whit, wwrites, wai_calls>>
    /\ UNCHANGED <<mvars, pvars, rvars, svars, avars, yvars, evars, tvars,
                   gvars, lvars>>

\* lines 110-116: the answer arrives with sites, which are stored and
\* returned
StoreSites(p, site_list) ==
    /\ wpc[p] = "awaiting"
    /\ site_list # <<>>
    /\ ECOMMERCE_SITES' =
           [c \in DOMAIN ECOMMERCE_SITES \cup {wcountry[p]} |->
               IF c = wcountry[p] THEN site_list ELSE ECOMMERCE_SITES[c]]
    /\ wwrites' = [wwrites EXCEPT ![wcountry[p]] = @ + 1]
    /\ WReturn(p, site_list)
    /\ UNCHANGED <<wkey, wcountry, whit, wai_calls>>
    /\ UNCHANGED <<mvars, pvars, rvars, svars, avars, yvars, evars, tvars,
                   gvars, lvars>>

\* lines 110-113 and 121: the answer holds no site
NoSites(p) ==
    /\ wpc[p] = "awaiting"
    /\ WReturn(p, fallback_sites)
    /\ UNCHANGED <<wkey, ECOMMERCE_SITES, wcountry, whit, wwrites, wai_calls>>
    /\ UNCHANGED <<mvars, pvars, rvars, svars, avars, yvars, evars, tvars,
                   gvars, lvars>>

(***************************************************************************)
(* The event loop under ScraperManager.search_products: the searches       *)
(* gathered at scraper_manager.py lines 84-86 are coroutines of one        *)
(* thread.  An awaited call (aiohttp, httpx) suspends its coroutine and    *)
(* frees the loop; a call that is not awaited (requests.get at amazon.py   *)
(* line 73, fetch_html_selenium at base_scraper.py line 50) keeps the      *)
(* thread until it returns.                                                *)
(***************************************************************************)
\* bound on the network calls of one search
MaxNetCalls == 2

LoopAdapters == {"amazon", "flipkart", "generic_ai", "google_custom_search"}

\* the stages of BaseScraper.fetch_html lines 28-66: the scraping provider
\* (aiohttp), the headless browser (fetch_html_selenium) and the direct
\* request (aiohttp)
FetchCalls == {"provider_fetch", "headless_browser", "direct_fetch"}

\* the network calls a search can make
NetCalls(a) ==
    CASE a = "amazon" -> {"structured_api", "ai_completion"} \cup FetchCalls
      [] a = "flipkart" -> {"ai_completion"} \cup FetchCalls
      [] a = "generic_ai" -> {"ai_completion", "probe"} \cup FetchCalls
      [] a = "google_custom_search" -> {"search_api", "ai_completion"}

\* TRUE when the code awaits the call: every client but requests.get and
\* the Selenium driver is an asynchronous one
awaited(call) == call \notin {"structured_api", "headless_browser"}

\* the loop runs a coroutine only while no call holds the thread
LoopFree == \A a \in DOMAIN lpc : lpc[a] # "blocking"

LIdle ==
    /\ lpc = <<>>
    /\ lcall = <<>>
    /\ lmade = <<>>

\* a running search reaches a network call
IssueCall(a, call) ==
    /\ a \in DOMAIN lpc /\ lpc[a] = "ready" /\ LoopFree
    /\ call \in NetCalls(a)
    /\ lmade[a] < MaxNetCalls
    /\ lpc' = [lpc EXCEPT ![a] = IF awaited(call) THEN "suspended"
                                 ELSE "blocking"]
    /\ lcall' = [lcall EXCEPT ![a] = call]
    /\ lmade' = [lmade EXCEPT ![a] = @ + 1]
    /\ UNCHANGED <<mvars, pvars, rvars, svars, avars, yvars, evars, tvars,
                   gvars, wvars>>

\* the answer of an awaited call is there and the loop resumes the search
ResumeCall(a) ==
    /\ a \in DOMAIN lpc /\ lpc[a] = "suspended" /\ LoopFree
    /\ lpc' = [lpc EXCEPT ![a] = "ready"]
    /\ lcall' = [lcall EXCEPT ![a] = None]
    /\ UNCHANGED lmade
    /\ UNCHANGED <<mvars, pvars, rvars, svars, avars, yvars, evars, tvars,
                   gvars, wvars>>

\* a call that was not awaited returns to its search
BlockingReturns(a) ==
    /\ a \in DOMAIN lpc /\ lpc[a] = "blocking"
    /\ lpc' = [lpc EXCEPT ![a] = "ready"]
    /\ lcall' = [lcall EXCEPT ![a] = None]
    /\ UNCHANGED lmade
    /\ UNCHANGED <<mvars, pvars, rvars, svars, avars, yvars, evars, tvars,
                   gvars, wvars>>

\* the search returns its list
SearchReturns(a) ==
    /\ a \in DOMAIN lpc /\ lpc[a] = "ready" /\ LoopFree
    /\ lpc' = [lpc EXCEPT ![a] = "done"]
    /\ UNCHANGED <<lcall, lmade>>
    /\ UNCHANGED <<mvars, pvars, rvars, svars, avars, yvars, evars, tvars,
                   gvars, wvars>>

(***************************************************************************)
(* Specifications.  Each one runs one component from its inputs and keeps  *)
(* the other components at rest.                                           *)
(***************************************************************************)
\* the orchestrator, over every registry and requested country
Init ==
    /\ scrapers \in Registries
    /\ MIdle
    /\ PIdle /\ RIdle /\ SIdle /\ AIdle /\ YIdle /\ LIdle /\ WIdle /\ GIdle /\ TIdle /\ EIdle

Next ==
    \/ \E c \in Countries : search_products(c)
    \/ \E i \in 1..Cardinality(Adapters) : TaskReturns(i)
    \/ \E i \in 1..Cardinality(Adapters) : TaskRaises(i)
    \/ GatherDone

Spec == Init /\ [][Next]_vars

\* clean_price applied once and twice to every raw text
PriceInit ==
    /\ scrapers = <<>> /\ MIdle
    /\ ppc = "start" /\ raw \in RawPrices /\ cleaned = None /\ cleaned2 = None
    /\ RIdle /\ SIdle /\ AIdle /\ YIdle /\ LIdle /\ WIdle /\ GIdle /\ TIdle /\ EIdle

PriceNext == FirstClean \/ SecondClean

PriceSpec == PriceInit /\ [][PriceNext]_vars

\* every record-building path on every candidate
RecordInit ==
    /\ scrapers = <<>> /\ MIdle
    /\ PIdle
    /\ rpc = "start"
    /\ path \in Paths
    /\ candidate \in Candidates(path)
    /\ rec = NoRecord
    /\ SIdle /\ AIdle /\ YIdle /\ LIdle /\ WIdle /\ GIdle /\ TIdle /\ EIdle

RecordNext ==
    \/ BuildStructured
    \/ BuildMarkup
    \/ BuildAI
    \/ BuildGenericAI
    \/ BuildHarvested
    \/ BuildGoogle
    \/ BuildGemini

RecordSpec == RecordInit /\ [][RecordNext]_vars

\* the estimate-then-rank pipeline of the /search handler
RouteInit ==
    /\ scrapers = <<>> /\ MIdle
    /\ PIdle /\ RIdle /\ AIdle /\ YIdle /\ LIdle /\ WIdle /\ GIdle /\ TIdle /\ EIdle
    /\ spc = "start"
    /\ query \in Queries
    /\ results \in ResultListsOfSearch
    /\ estimated = <<>>
    /\ faulted = FALSE
    /\ sorted_results = <<>>
    /\ response = NoResponse

RouteNext == SearchRaises \/ EstimateStage \/ RankStage

RouteSpec == RouteInit /\ [][RouteNext]_vars

\* one search of one adapter, under every answer of its environment
AdapterInit ==
    /\ scrapers = <<>> /\ MIdle
    /\ PIdle /\ RIdle /\ SIdle /\ AIdle /\ YIdle /\ LIdle /\ WIdle /\ GIdle /\ TIdle /\ EIdle

AdapterNext ==
    \/ \E c \in AdapterCountries, scraper_key, ai_key \in BOOLEAN :
           AmazonSearch(c, scraper_key, ai_key)
    \/ AmazonStructured
    \/ \E c \in AdapterCountries, ai_key \in BOOLEAN : FlipkartSearch(c, ai_key)
    \/ FetchPage
    \/ ScrapeMarkup
    \/ MarkupRaises
    \/ AIFallback
    \/ \E c \in AdapterCountries, ai_key \in BOOLEAN, n \in 0..MaxSites :
           GenericSearch(c, ai_key, n)
    \/ SearchWebsite
    \/ GenericReturn
    \/ GenericRaises
    \/ \E c \in AdapterCountries, configured, ai_key \in BOOLEAN :
           GoogleSearch(c, configured, ai_key)
    \/ GoogleQuery
    \/ \E c \in AdapterCountries, ai_key \in BOOLEAN :
           HandlerSearchUnconfigured(c, ai_key)

AdapterSpec == AdapterInit /\ [][AdapterNext]_vars

\* _extract_with_ai of the generic adapter on every page and completion
ExtractInit ==
    /\ scrapers = <<>> /\ MIdle
    /\ PIdle /\ RIdle /\ SIdle /\ AIdle /\ YIdle /\ LIdle /\ WIdle /\ GIdle /\ TIdle
    /\ epc = "start"
    /\ ewebsite \in Websites
    /\ ecompletion \in ExtractCompletions
    /\ epage \in Pages
    /\ eharvested = FALSE
    /\ ereturned = NoAnswer

ExtractNext == ExtractFromPage

ExtractSpec == ExtractInit /\ [][ExtractNext]_vars

\* is_likely_year_not_price on every candidate and text
YearInit ==
    /\ scrapers = <<>> /\ MIdle
    /\ PIdle /\ RIdle /\ SIdle /\ AIdle /\ LIdle /\ WIdle /\ GIdle /\ TIdle /\ EIdle
    /\ ypc = "start"
    /\ ycandidate \in YearCandidates
    /\ ytext \in YearTexts
    /\ yresult = FALSE

YearNext == CheckYear

YearSpec == YearInit /\ [][YearNext]_vars

\* extract_price_from_text on every text
TextInit ==
    /\ scrapers = <<>> /\ MIdle
    /\ PIdle /\ RIdle /\ SIdle /\ AIdle /\ YIdle /\ LIdle /\ WIdle /\ GIdle /\ EIdle
    /\ tpc = "start"
    /\ ttext \in PriceTexts
    /\ tprice = None
    /\ tcurrency = None

TextNext == ExtractPrice

TextSpec == TextInit /\ [][TextNext]_vars

\* the price of every search item
ItemInit ==
    /\ scrapers = <<>> /\ MIdle
    /\ PIdle /\ RIdle /\ SIdle /\ AIdle /\ YIdle /\ LIdle /\ WIdle /\ TIdle /\ EIdle
    /\ gpc = "start"
    /\ gitem \in PricedItems
    /\ gprice = None
    /\ gcurrency = None

ItemNext == PriceItem

ItemSpec == ItemInit /\ [][ItemNext]_vars

\* concurrent calls of get_websites_for_country in one process
CacheInit ==
    /\ scrapers = <<>> /\ MIdle
    /\ PIdle /\ RIdle /\ SIdle /\ AIdle /\ YIdle /\ LIdle /\ GIdle /\ TIdle /\ EIdle
    /\ wkey \in BOOLEAN
    /\ ECOMMERCE_SITES = StaticSites
    /\ wpc = [p \in Callers |-> "idle"]
    /\ wcountry = [p \in Callers |-> None]
    /\ wreturned = [p \in Callers |-> NoAnswer]
    /\ whit = [p \in Callers |-> FALSE]
    /\ wwrites = [c \in CountryCodes |-> 0]
    /\ wai_calls = [c \in CountryCodes |-> 0]

CacheNext ==
    \/ \E p \in Callers, c \in RequestedCountries : CachedCall(p, c)
    \/ \E p \in Callers, c \in RequestedCountries : AskAI(p, c)
    \/ \E p \in Callers, c \in RequestedCountries : FallbackCall(p, c)
    \/ \E p \in Callers, site_list \in SiteAnswers : StoreSites(p, site_list)
    \/ \E p \in Callers : NoSites(p)

CacheSpec == CacheInit /\ [][CacheNext]_vars

\* the searches of every set of adapters gathered on one event loop
LoopInit ==
    /\ scrapers = <<>> /\ MIdle
    /\ PIdle /\ RIdle /\ SIdle /\ AIdle /\ YIdle /\ WIdle /\ GIdle /\ TIdle
    /\ EIdle
    /\ \E gathered \in SUBSET LoopAdapters :
           /\ gathered # {}
           /\ lpc = [a \in gathered |-> "ready"]
           /\ lcall = [a \in gathered |-> None]
           /\ lmade = [a \in gathered |-> 0]

LoopNext ==
    \/ \E a \in LoopAdapters, call \in FetchCalls \cup
            {"structured_api", "ai_completion", "probe", "search_api"} :
           IssueCall(a, call)
    \/ \E a \in LoopAdapters : ResumeCall(a)
    \/ \E a \in LoopAdapters : BlockingReturns(a)
    \/ \E a \in LoopAdapters : SearchReturns(a)

LoopSpec == LoopInit /\ [][LoopNext]_vars

(***************************************************************************)
(* Claims about the orchestrator (checked under Spec).                     *)
(***************************************************************************)
RECURSIVE SuccessfulConcat(_, _)
\* the lists of the non-raising tasks from task i on, one after the other
SuccessfulConcat(out, i) ==
    IF i > Len(out) THEN <<>>
    ELSE (IF out[i].kind = "list" THEN out[i].items ELSE <<>>)
         \o SuccessfulConcat(out, i + 1)

\* the countries each adapter lists, in upper case
ListedUpper == [a \in Adapters |-> {Upper(x) : x \in supported_countries[a]}]

\* adapter a lists country c, compared case-insensitively
Lists(a, c) == Upper(c) \in ListedUpper[a]

HasWildcard(a) == "ALL" \in supported_countries[a]

\* the position of adapter a among the dispatched adapters
TaskOf(a) == CHOOSE i \in 1..Len(dispatched) : dispatched[i] = a

\* C1: whichever tasks raise, search_products raises nothing and returns
\* exactly the lists of the non-raising adapters, one after the other, with
\* no record of a raising adapter.
C1_FaultIsolation ==
    mpc = "done" =>
        /\ ~raised
        /\ returned = SuccessfulConcat(outcome, 1)
        /\ \A k \in 1..Len(returned) :
               outcome[TaskOf(returned[k].origin)].kind = "list"

\* C1 witness: a finished call in which one task raised and another
\* returned records, which are the result.
C1_Witness ==
    /\ mpc = "done"
    /\ \E i \in 1..Len(outcome) : outcome[i] = Raise
    /\ \E i \in 1..Len(outcome) :
           outcome[i].kind = "list" /\ Len(outcome[i].items) > 0
    /\ Len(returned) > 0

\* C2: every registered adapter that lists the requested country
\* (case-insensitively) or carries the wildcard "ALL" is dispatched, the
\* wildcard adapters also when another adapter lists the country.
C2_WildcardAlwaysSelected ==
    mpc # "idle" =>
        \A a \in Range(scrapers) :
            (Lists(a, country) \/ HasWildcard(a)) => a \in Range(dispatched)

\* C3: when no registered adapter lists the requested country, exactly the
\* wildcard adapters are dispatched, in registry order; when there is none
\* either, the call is over with the empty list and no search was called.
C3_WildcardFallback ==
    (mpc # "idle" /\ \A a \in Range(scrapers) : ~Lists(a, country)) =>
        /\ dispatched = SelectSeq(scrapers, HasWildcard)
        /\ (\A a \in Range(scrapers) : ~HasWildcard(a)) =>
               (mpc = "done" /\ returned = <<>> /\ dispatched = <<>>
                /\ outcome = <<>>)

\* C3 witness: a country no adapter lists, served by two or more wildcard
\* adapters.
C3_Witness ==
    /\ mpc = "gathering"
    /\ country = "BR"
    /\ \A a \in Range(scrapers) : ~Lists(a, country)
    /\ Len(dispatched) >= 2

\* C4: the result holds, adapter by adapter in dispatch (registry) order,
\* exactly the records each successful adapter returned, in the order it
\* returned them, whatever the order in which the tasks finished; nothing
\* is dropped, merged or re-sorted.
C4_RegistrationOrder ==
    mpc = "done" =>
        /\ \A i \in 1..Len(outcome) :
               SelectSeq(returned, LAMBDA r : r.origin = dispatched[i])
                   = IF outcome[i].kind = "list" THEN outcome[i].items ELSE <<>>
        /\ LET task == [k \in 1..Len(returned) |-> TaskOf(returned[k].origin)]
           IN  \A j, k \in 1..Len(returned) : j < k => task[j] <= task[k]

\* C4 witness: the task dispatched second finished first, both returned
\* records, and two records of different adapters carry the same link.
C4_Witness ==
    /\ mpc = "done"
    /\ Len(completed) >= 2
    /\ completed[1] > completed[2]
    /\ \E j, k \in 1..Len(returned) :
           /\ returned[j].origin # returned[k].origin
           /\ returned[j].link = returned[k].link

(***************************************************************************)
(* Claims about the record builders (checked under RecordSpec).            *)
(***************************************************************************)
\* C5: every record handed to a caller holds all six primary keys, none of
\* them None.
C5_NoNullPrimaryField ==
    (rpc = "built" /\ "link" \in DOMAIN rec) =>
        \A f \in PrimaryFields : rec[f] # None /\ rec[f] # Missing

(***************************************************************************)
(* Claims about clean_price (checked under PriceSpec).                     *)
(***************************************************************************)
\* C6: clean_price(clean_price(x)) = clean_price(x) for every input x.
C6_Idempotent == ppc = "twice" => cleaned2 = cleaned

\* a numeral survives cleaning: the kept characters, after the separator
\* rules, are a float literal
NumeralSurvives(x) == x # None /\ x # "" /\ IsFloatLiteral(numeral(x))

\* C7: clean_price returns a text that parses as a non-negative float, and
\* "0" whenever no valid numeral survives cleaning.
C7_NonNegativeFloat ==
    ppc # "start" =>
        /\ IsFloatLiteral(cleaned)
        /\ ~IsNegativeText(cleaned)
        /\ ~NumeralSurvives(raw) => cleaned = "0"

\* C7 witness: a text with a minus sign and a separator whose numeral
\* survives.
C7_Witness ==
    /\ ppc = "once"
    /\ IsNegativeText(raw)
    /\ Contains(raw, ",")
    /\ cleaned # "0"

(***************************************************************************)
(* Claims about the /search pipeline (checked under RouteSpec).            *)
(***************************************************************************)
\* the ranking key as the claim states it: float(price without commas), 0
\* when the price is missing or does not parse
ClaimedKey(item) ==
    IF ~IsText(item.price) THEN 0
    ELSE LET text == ReplaceChar(item.price, ",", "")
         IN  IF IsFloatLiteral(text) THEN FloatValue(text) ELSE 0

Prices(items) == [i \in 1..Len(items) |-> items[i].price]

\* position of the item with link l in the list before the sort
PlaceBefore(l) == CHOOSE i \in 1..Len(estimated) : estimated[i].link = l

\* C8: the ranking step returns the same items ordered ascending by the
\* key, items of equal key in their order before the sort; prices
\* "299", "abc", "", "149" come out as "abc", "", "149", "299".
C8_StableAscending ==
    spc = "done" /\ results # <<>> =>
        /\ Len(sorted_results) = Len(estimated)
        /\ Range(sorted_results) = Range(estimated)
        /\ LET key == [j \in 1..Len(sorted_results) |->
                          ClaimedKey(sorted_results[j])]
               place == [j \in 1..Len(sorted_results) |->
                            PlaceBefore(sorted_results[j].link)]
           IN  \A j, k \in 1..Len(sorted_results) :
                   j < k =>
                       /\ key[j] <= key[k]
                       /\ key[j] = key[k] => place[j] < place[k]
        /\ Prices(estimated) = <<"299", "abc", "", "149">>
               => Prices(sorted_results) = <<"abc", "", "149", "299">>

\* C8 witness: the example list, sorted.
C8_Witness ==
    /\ spc = "done"
    /\ Prices(estimated) = <<"299", "abc", "", "149">>
    /\ Prices(sorted_results) = <<"abc", "", "149", "299">>

NameOf(item) == Lower(GetOrEmpty(item.productName))
SourceOf(item) == Lower(GetOrEmpty(item.source))

\* a record estimate_price can lower-case: no None name or source
HasTexts(item) == item.productName # None /\ item.source # None

\* item i is reached by the estimation loop: no earlier item made it raise
Reached(i) ==
    \A j \in 1..(i - 1) :
        HasTexts(results[j]) /\ results[j].additionalInfo.kind # "other"

InNameOrSource(item, keyword) ==
    Contains(NameOf(item), keyword) \/ Contains(SourceOf(item), keyword)

GenericRule(item, q) ==
    \/ Contains(NameOf(item), "smartwatch")
    \/ Contains(NameOf(item), "smart watch")
    \/ Contains(Lower(q), "smartwatch")

\* the price the claim as written assigns; "" stands for no assignment
ClaimedPrice(item, q) ==
    IF InNameOrSource(item, "apple") THEN "399"
    ELSE IF InNameOrSource(item, "garmin") THEN "299"
    ELSE IF InNameOrSource(item, "amazfit") THEN "149"
    ELSE IF InNameOrSource(item, "fitbit") THEN "199"
    ELSE IF \E luxury \in LuxuryKeywords : InNameOrSource(item, luxury)
         THEN "2999"
    ELSE IF GenericRule(item, q) THEN "149"
    ELSE ""

\* the price the amended claim assigns: the apple rule asks for
\* "apple watch" in the name or "apple" in the source, the luxury rule
\* reads the name only
AmendedPrice(item, q) ==
    LET name == NameOf(item)
        source == SourceOf(item)
        in_either(keyword) == Contains(name, keyword) \/ Contains(source, keyword)
    IN  IF Contains(name, "apple watch") \/ Contains(source, "apple") THEN "399"
        ELSE IF in_either("garmin") THEN "299"
        ELSE IF in_either("amazfit") THEN "149"
        ELSE IF in_either("fitbit") THEN "199"
        ELSE IF \E luxury \in LuxuryKeywords : Contains(name, luxury)
             THEN "2999"
        ELSE IF GenericRule(item, q) THEN "149"
        ELSE ""

\* the estimation stage left item i with the price `expected`, or with the
\* price it had when `expected` is ""
PriceIs(i, expected) ==
    estimated[i].price = IF expected = "" THEN results[i].price ELSE expected

EstimationRan == spc \in {"estimated", "failed", "done"} /\ results # <<>>

Names(items) == [i \in 1..Len(items) |-> items[i].productName]

\* the /search handler was given the Forerunner and the Instinct record, in
\* either order, for the query "garmin watch"
GarminPair ==
    /\ query = "garmin watch"
    /\ Len(results) = 2
    /\ \E a, b \in 1..2 :
           /\ a # b
           /\ results[a] = [ForerunnerRecord EXCEPT !.link = ItemLinks[a]]
           /\ results[b] = [InstinctRecord EXCEPT !.link = ItemLinks[b]]

\* C11: for the query "garmin watch" and the records Forerunner 55
\* ("199.99", USD) and Instinct (no price, no currency), in either input
\* order, the handler returns the Forerunner record unchanged first and the
\* Instinct record second, with price "299" and priceEstimated = true.
C11_GarminEndToEnd ==
    (spc = "done" /\ GarminPair) =>
        LET a == CHOOSE i \in 1..2 : results[i].productName = "Garmin Forerunner 55"
            b == CHOOSE i \in 1..2 : results[i].productName = "Garmin Instinct"
        IN  /\ ~faulted
            /\ Len(sorted_results) = 2
            /\ sorted_results[1] = results[a]
            /\ sorted_results[2].price = "299"
            /\ sorted_results[2].additionalInfo.priceEstimated
            /\ sorted_results[2] =
                   [results[b] EXCEPT
                       !.price = "299",
                       !.additionalInfo =
                           [kind |-> "dict", keys |-> {}, priceEstimated |-> TRUE]]

\* C11 witness: the unpriced record came first in the input and second in
\* the output.
C11_Witness ==
    /\ spc = "done"
    /\ GarminPair
    /\ results[1].productName = "Garmin Instinct"
    /\ Names(sorted_results) = <<"Garmin Forerunner 55", "Garmin Instinct">>
    /\ sorted_results[2].price = "299"

\* C20: a record accepted from an item of the completion in
\* GenericAIScraper._extract_with_ai has a non-empty productName, link and
\* price, its link contains the domain of the website (compared in lower
\* case) and matches the path pattern of the domain when there is one, and
\* the probe of the link answered 200; an item whose name, link or price is
\* empty or whose probe failed is dropped.
C20_GenericAcceptance ==
    (rpc = "built" /\ path = "generic_ai") =>
        /\ rec # NoRecord =>
               /\ IsText(rec.productName) /\ rec.productName # ""
               /\ IsText(rec.link) /\ rec.link # ""
               /\ IsText(rec.price) /\ rec.price # ""
               /\ Contains(Lower(rec.link), candidate.website)
               /\ HasPattern(candidate.website) =>
                      MatchesPattern(candidate.website, rec.link)
               /\ candidate.probe = "200"
        /\ (\/ candidate.productName \in {Missing, None, ""}
            \/ candidate.link \in {Missing, None, ""}
            \/ candidate.price \in {Missing, None, ""}
            \/ candidate.probe # "200") => rec = NoRecord

\* C20 witness: a relative link completed with the website, accepted after
\* a successful probe.
C20_Witness ==
    /\ rpc = "built" /\ path = "generic_ai"
    /\ candidate.link = "/dp/B01"
    /\ candidate.website = "amazon.in"
    /\ rec # NoRecord
    /\ rec.link = "https://www.amazon.in/dp/B01"
    /\ rec.price # ""

(***************************************************************************)
(* Claims about one adapter's search (checked under AdapterSpec).          *)
(***************************************************************************)
\* C12: FlipkartScraper.search called with a country that is not IN in any
\* letter case is over at once with the empty list, and has made no
\* request of any kind.
C12_FlipkartCountryFilter ==
    (adapter = "flipkart" /\ Upper(acountry) # "IN") =>
        /\ apc = "done"
        /\ areturned = ListOf(<<>>)
        /\ calls = <<>>
        /\ ~aborted

\* C12 witness: Flipkart asked for US.
C12_Witness ==
    /\ adapter = "flipkart"
    /\ acountry = "US"
    /\ apc = "done"
    /\ areturned = ListOf(<<>>)

\* C14: the search of every adapter returns a list and never raises, and a
\* search that an internal failure aborted returns the empty list.
C14_AbortYieldsEmptyList ==
    (apc = "done" /\ adapter # "search_handler") =>
        /\ areturned.kind = "list"
        /\ aborted => areturned = ListOf(<<>>)

\* C17: an AI-assisted extraction of any adapter returns at most 5 records
\* and looks at no further item of the completion once 5 are accepted.
C17_ExtractionCap ==
    ai_items.kind = "list" =>
        /\ Len(ai_returned) <= AICap
        /\ ai_processed <= Len(ai_items.items)
        /\ \A k \in 0..(ai_processed - 1) :
               accepted_among(ai_items.items, k) < AICap

\* the structured step is over
AfterStructured ==
    adapter = "amazon" /\ apc \in {"fetch", "markup", "fallback", "done"}

\* the endpoint answered 200 and no product among the first 10 made the
\* mapping raise
StructuredCallSucceeded ==
    /\ akeys.scraper
    /\ structured.kind = "ok"
    /\ ~(structured.bad >= 1 /\ structured.bad <= structured.n
         /\ structured.bad <= StructuredCap)

\* C18: with a provider key, a structured call that succeeds with at least
\* one product makes search return exactly the mapped records, at most 10,
\* after that one call and nothing else; without the key, on a status other
\* than 200 or on an exception in the structured step the search goes on to
\* the results page, whose fetch is its next step.
C18_StructuredFirst ==
    AfterStructured =>
        /\ akeys.scraper <=> (calls # <<>> /\ calls[1] = "structured_api")
        /\ (StructuredCallSucceeded /\ structured.n >= 1) =>
               /\ apc = "done"
               /\ calls = <<"structured_api">>
               /\ ~aborted
               /\ areturned =
                      ListOf(Tagged("structured",
                                    IF structured.n < StructuredCap
                                    THEN structured.n ELSE StructuredCap))
               /\ Len(areturned.items) <= StructuredCap
        /\ ~StructuredCallSucceeded =>
               LET first == IF akeys.scraper THEN 2 ELSE 1
               IN  /\ apc # "fetch" =>
                          Len(calls) >= first /\ calls[first] = "page_fetch"
                   /\ apc = "fetch" => Len(calls) = first - 1
                   /\ \A j \in 1..Len(calls) :
                          calls[j] = "structured_api" => j = 1

\* C18 witness: eleven products answered, ten returned at once.
C18_Witness ==
    /\ adapter = "amazon" /\ apc = "done"
    /\ structured = [kind |-> "ok", n |-> StructuredCap + 1, bad |-> 0]
    /\ Len(areturned.items) = StructuredCap
    /\ calls = <<"structured_api">>

\* the step that ends the markup path of amazon and flipkart
FallbackStep == apc = "fallback" /\ apc' = "done"

\* C19: at the end of the markup path the AI-assisted fallback is invoked
\* exactly when fewer than 3 markup-scraped candidates survived and an AI
\* key is set, at most once in a search, and its records are appended
\* behind the records collected so far, which keep their order.
C19_FallbackWhenFewMarkup ==
    [][FallbackStep =>
        LET invoked == calls' = Append(calls, "ai_completion")
        IN  /\ invoked <=> (markup_n < FewResults /\ akeys.ai)
            /\ ~invoked => calls' = calls
            /\ \A j \in 1..Len(calls) : calls[j] # "ai_completion"
            /\ areturned'.items =
                   aresults \o (IF invoked THEN ai_returned' ELSE <<>>)
       ]_vars

(***************************************************************************)
(* Claims about is_likely_year_not_price (checked under YearSpec).         *)
(***************************************************************************)
\* the text gives the candidate a year context: a year phrasing with the
\* candidate, or a founding year next to "watch"
YearContext ==
    \/ year_pattern_found(ycandidate, ytext)
    \/ /\ DigitsValue(ycandidate) \in FoundingYears
       /\ Contains(Lower(ytext), "watch")

YearExamples ==
    /\ (ycandidate = "1926" /\ ytext = "Watches since 1926") => yresult
    /\ (ycandidate = "399" /\ ytext = "Apple Watch 399") => ~yresult

\* C13 as written: the result is true only for a candidate of exactly four
\* digits whose value lies in [1800, 2030] and that the text gives a year
\* context; ("1926", "Watches since 1926") is true, ("399",
\* "Apple Watch 399") false.
C13_FourDigitYear ==
    ypc = "checked" =>
        /\ yresult =>
               /\ Len(ycandidate) = 4
               /\ AllDigits(ycandidate)
               /\ DigitsValue(ycandidate) \in FirstYear..LastYear
               /\ YearContext
        /\ YearExamples

\* What the code guarantees instead (C13 without the length): the same for
\* a candidate that is a non-empty string of digits, of any length, whose
\* integer value lies in [1800, 2030].
C13_YearValue ==
    ypc = "checked" =>
        /\ yresult =>
               /\ ycandidate # ""
               /\ AllDigits(ycandidate)
               /\ DigitsValue(ycandidate) \in FirstYear..LastYear
               /\ YearContext
        /\ YearExamples

\* C13 witness: "1926" in "Watches since 1926" is a year.
C13_Witness ==
    /\ ypc = "checked"
    /\ ycandidate = "1926"
    /\ ytext = "Watches since 1926"
    /\ yresult

(***************************************************************************)
(* Claims about the answer of the /search handler (checked under           *)
(* RouteSpec).                                                             *)
(***************************************************************************)
Answered == spc \in {"search_failed", "failed", "done"}

\* C15: the handler answers 200 with the list sorted ascending by the price
\* key, the empty array when the search found nothing (estimation and
\* sorting do not run), and otherwise one 500 whose detail carries the text
\* of the exception raised by the search or by the estimation.
C15_HandlerAnswers ==
    /\ ~Answered => response = NoResponse
    /\ Answered =>
        /\ response.status \in {200, 500}
        /\ (spc = "done" /\ results = <<>>) =>
               /\ response = list_response(<<>>)
               /\ estimated = <<>> /\ sorted_results = <<>> /\ ~faulted
        /\ (spc = "done" /\ results # <<>>) =>
               /\ response.status = 200
               /\ Len(response.body) = Len(results)
               /\ LET key == [j \in 1..Len(response.body) |->
                                get_price_for_sorting(response.body[j])]
                  IN  \A j, k \in 1..Len(response.body) :
                          j < k => key[j] <= key[k]
        /\ spc = "search_failed" =>
               \E text \in SearchErrors :
                   /\ response.status = 500
                   /\ response.detail = "Error searching products: " \o text
        /\ spc = "failed" =>
               /\ faulted
               /\ response.status = 500
               /\ response.detail \in
                      {"Error searching products: " \o text : text \in
                          {"'str' object does not support item assignment",
                           "'NoneType' object has no attribute 'lower'"}}
        /\ response.status = 500 <=> spc \in {"search_failed", "failed"}

\* C15 witness: the estimation raised on a record whose additionalInfo is
\* no mapping, and the handler answered the 500 with the text.
C15_Witness ==
    /\ spc = "failed"
    /\ response.status = 500
    /\ response.detail =
           "Error searching products: "
           \o "'str' object does not support item assignment"

\* the estimator assigned a price to item i
Filled(i) == estimated[i].price # results[i].price

\* C16: a record whose price the estimator filled differs from what the
\* search returned only in price and in additionalInfo.priceEstimated (an
\* absent or null additionalInfo becoming a mapping with that one entry), a
\* record it did not fill is unchanged, and after a completed estimation
\* stage priceEstimated is true on exactly the filled records.
C16_EstimateFrame ==
    EstimationRan =>
        /\ Len(estimated) = Len(results)
        /\ \A i \in 1..Len(results) :
            LET before == results[i]
                after == estimated[i]
            IN  /\ \A f \in PrimaryFields \ {"price"} : after[f] = before[f]
                /\ ~Filled(i) => after = before
                /\ (Filled(i) /\ before.additionalInfo.kind # "other") =>
                       after.additionalInfo =
                           [kind |-> "dict",
                            keys |-> before.additionalInfo.keys,
                            priceEstimated |-> TRUE]
                /\ (Filled(i) /\ before.additionalInfo.kind = "other") =>
                       after.additionalInfo = before.additionalInfo /\ faulted
                /\ spc \in {"estimated", "done"} =>
                       (after.additionalInfo.priceEstimated <=> Filled(i))

\* C16 witness: a filled record that kept its rating entry.
C16_Witness ==
    /\ spc = "done"
    /\ Len(results) = 1
    /\ Filled(1)
    /\ results[1].additionalInfo = AIDict({"rating"})
    /\ estimated[1].additionalInfo.keys = {"rating"}
    /\ estimated[1].additionalInfo.priceEstimated

(***************************************************************************)
(* Claims about GenericAIScraper._extract_with_ai on one page (checked     *)
(* under ExtractSpec).                                                     *)
(***************************************************************************)
\* the AI stage accepted no item of the completion
NothingAccepted ==
    accepted_among(ecompletion.items, Len(ecompletion.items)) = 0

\* C21: whenever the AI stage yields no accepted item (every item rejected,
\* an empty completion, or a completion that is no JSON array) the link
\* harvester runs on the page before the function returns.
C21_HarvesterAfterAIStage ==
    (epc = "returned" /\ NothingAccepted) => eharvested

\* C22: the link harvester returns at most 5 records, no two with the same
\* link, and every returned link contains the domain, matches the path
\* pattern of the domain when there is one and passed the probe.
C22_HarvestedLinks ==
    (epc = "returned" /\ eharvested) =>
        LET found == ereturned.items
        IN  /\ Len(found) <= AICap
            /\ \A i, j \in 1..Len(found) :
                   found[i].link = found[j].link => i = j
            /\ \A i \in 1..Len(found) :
                   /\ Contains(found[i].link, ewebsite)
                   /\ HasPattern(ewebsite) =>
                          MatchesPattern(ewebsite, found[i].link)
                   /\ \E k \in 1..Len(epage) :
                          /\ epage[k].probe = "200"
                          /\ harvester_record(epage[k], ewebsite, "200")
                                 = found[i]
(***************************************************************************)
(* Claims about extract_price_from_text (checked under TextSpec)           *)
(***************************************************************************)
\* the patterns the claim calls currency-marked or keyword-qualified, by
\* their place in PRICE_PATTERNS, and the place of the bare-amount pattern
QualifiedPatterns == {1, 2, 3, 4, 5, 7, 9, 10}
BarePattern == 6

QualifiedYields(text) ==
    {pattern_yield(k, text) : k \in QualifiedPatterns} \ {NoAnswer}

\* C23: every currency-marked or keyword-qualified pattern is tried before
\* the bare-amount pattern: when some qualified pattern yields a price for
\* the text, the pair returned is the yield of a qualified pattern, and the
\* bare-amount pattern decides only when none does; the currency is "" or
\* the code of a key of CURRENCY_MAP.
C23_QualifiedBeforeBare ==
    tpc = "extracted" =>
        LET returned_pair == [price |-> tprice, currency |-> tcurrency]
        IN  /\ QualifiedYields(ttext) # {}
                => returned_pair \in QualifiedYields(ttext)
            /\ (QualifiedYields(ttext) = {}
                    /\ pattern_yield(BarePattern, ttext) # NoAnswer)
                => returned_pair = pattern_yield(BarePattern, ttext)
            /\ tcurrency \in {""} \cup {CURRENCY_MAP[i][2] :
                                          i \in 1..Len(CURRENCY_MAP)}

(***************************************************************************)
(* Claims about the price of a search item (checked under ItemSpec)        *)
(***************************************************************************)
\* the number is a year of 1800..2030 that a text of the item gives in
\* founding, since, established or edition phrasing
YearPhrased(price, item) ==
    /\ price # "" /\ AllDigits(price)
    /\ FirstYear <= DigitsValue(price) /\ DigitsValue(price) <= LastYear
    /\ \/ year_pattern_found(price, GetOrEmpty(item.title))
       \/ year_pattern_found(price, GetOrEmpty(item.snippet))
       \/ year_pattern_found(price, GetOrEmpty(item.description))

\* C24: the price of a record of search_products_google is never a year of
\* 1800..2030 that the item's title, snippet or description gives in
\* founding, since, established or edition phrasing, whether the price came
\* from the structured pagemap data or from the texts.
C24_NoYearAsPrice ==
    gpc = "priced" => ~YearPhrased(gprice, gitem)

(***************************************************************************)
(* Claims about records built without a price (checked under RecordSpec)   *)
(***************************************************************************)
\* the candidate has no price: no price element in the markup, or no price
\* value in the source data
NoPriceExtracted ==
    CASE path \in {"amazon_markup", "flipkart_markup"} ->
             candidate.price_text = ""
      [] path = "amazon_structured" ->
             ~Truthy(candidate.pricing) /\ ~Truthy(candidate.price)
      [] path = "harvester" -> TRUE
      [] OTHER -> ~Truthy(candidate.price)

\* C25: a record built for a candidate for which no price was extracted has
\* the empty string as its price, so estimate_price takes the price for
\* missing.
C25_NoPriceIsEmpty ==
    (rpc = "built" /\ rec # NoRecord /\ NoPriceExtracted) => rec.price = ""

(***************************************************************************)
(* Claims about the cache of site lists (checked under CacheSpec)          *)
(***************************************************************************)
\* C26: under every interleaving of concurrent calls the entry of a country
\* absent from the static table is assigned at most once, a call that finds
\* the entry returns it without an AI request, and the entries of the
\* static table keep their lists.
C26_CacheWrittenOnce ==
    /\ \A c \in DOMAIN wwrites : wwrites[c] <= 1
    /\ \A p \in DOMAIN wpc :
           whit[p] => /\ wpc[p] = "returned"
                      /\ wreturned[p].kind = "list"
    /\ \A c \in DOMAIN StaticSites :
           c \in DOMAIN ECOMMERCE_SITES /\ ECOMMERCE_SITES[c] = StaticSites[c]

(***************************************************************************)
(* Claims about the missing search configuration (checked under           *)
(* AdapterSpec)                                                            *)
(***************************************************************************)
\* C27: without the API key or the engine id search_products_google raises
\* before any network request; the /search handler answers with a server
\* error, and GoogleCustomSearchScraper.search returns the empty list.
C27_MissingConfiguration ==
    (apc = "done" /\ ~akeys.scraper
        /\ adapter \in {"google_custom_search", "search_handler"})
        => /\ calls = <<>>
           /\ aborted
           /\ adapter = "search_handler"
                  => areturned = Raise /\ response.status = 500
           /\ adapter = "google_custom_search"
                  => areturned = ListOf(<<>>) /\ response = NoResponse

C27_Witness ==
    /\ apc = "done" /\ adapter = "search_handler" /\ ~akeys.scraper
    /\ calls = <<>>
    /\ response = error_response(
                      "Google Custom Search API key and CSE ID must be set.")

(***************************************************************************)
(* Claims about the event loop (checked under LoopSpec)                    *)
(***************************************************************************)
\* C28: every network call of a search is a suspension point: while one
\* search is in a network call, every other gathered search that is ready
\* to run can take its step.
C28_CallsSuspend ==
    \A a \in DOMAIN lpc, b \in DOMAIN lpc :
        (a # b /\ lpc[a] \in {"suspended", "blocking"} /\ lpc[b] = "ready")
            => LoopFree

(***************************************************************************)
(* Claims about AI-derived records in the /search pipeline (checked under  *)
(* RouteSpec)                                                              *)
(***************************************************************************)
\* a record search_products_google can return: one of google_record, with
\* every field a string, or one of extract_with_gemini, where only absent
\* keys are filled and null or ill-typed values are kept
GoogleReturnable(r) ==
    /\ IsText(r.link)
    /\ r.productName # Missing /\ r.price # Missing /\ r.source # Missing
    /\ r.additionalInfo.kind # "missing"

\* C29: estimation and ranking raise for no list of records that
\* search_products_google can return, null or ill-typed values of
\* AI-derived records included, so no such record makes the request fail.
C29_StagesNeverRaise ==
    (\A i \in 1..Len(results) : GoogleReturnable(results[i]))
        => /\ ~faulted
           /\ spc # "failed"
           /\ response.status # 500 \/ spc = "search_failed"

(***************************************************************************)
(* Claims about the stages of AmazonScraper.search (checked under          *)
(* AdapterSpec)                                                            *)
(***************************************************************************)
\* C30: when AmazonScraper.search has gone on from the structured endpoint
\* to the results page, the list it returns holds no record built from the
\* structured answer.
C30_StagesDoNotMix ==
    (adapter = "amazon" /\ apc = "done"
        /\ \E k \in 1..Len(calls) : calls[k] = "page_fetch")
        => \A i \in 1..Len(areturned.items) :
               areturned.items[i].via # "structured"

====
